---- MODULE Spec2Model ----
(***************************************************************************)
(* Conversational insurance agent: the client-profile merge model          *)
(* (state/client_context.py), the session store with its payment           *)
(* readiness gate (state/session_store.py) and the tool-calling loop of    *)
(* the orchestrator (core/orchestrator.py).                                *)
(*                                                                         *)
(* Conventions of the translation:                                         *)
(*  - Python None is the value None; strings are TLA+ strings drawn from   *)
(*    a small universe on which strip/lower/upper/digit-filtering are      *)
(*    tabulated (Strip, Lower, Upper, Digits);                             *)
(*  - dates and costs are atoms written as strings ("2025-12-01", "100"),  *)
(*    str(date) is the same atom;                                          *)
(*  - ISO timestamps are naturals read from the clock `now`, 0 standing    *)
(*    for an absent (None) timestamp; ISO strings of one timezone compare  *)
(*    as the naturals do;                                                  *)
(*  - a Python dict is a function on its key set, {} is the empty          *)
(*    function; a list is a sequence;                                      *)
(*  - the stored roster is kept in its deserialized form (ClientDatum      *)
(*    records), a record "in the list" is named by its 1-based index and   *)
(*    index 0 stands for "no such record".                                 *)
(***************************************************************************)
EXTENDS Integers, Sequences, FiniteSets, TLC

VARIABLES
    clients,        \* session["clients"]: the stored roster
    messages,       \* session["messages"]: the stored transcript
    tool_results,   \* session["tool_results"]: tool name -> last result
    now,            \* the wall clock read by _iso_now()
    last,           \* record of the last store/pure operation (history)
    pc,             \* position of the running handle_message call
    turn,           \* handle_message: the round counter `turn`
    actions,        \* handle_message: actions of the round not yet executed
    tool_runs,      \* handle_message: the per-turn list `tool_runs`
    llm_calls,      \* number of _generate_response calls of the running turn
    gate,           \* status of the last evaluate_payment_readiness of the turn
    response,       \* value returned by the last finished handle_message
    turns_done,     \* number of handle_message calls started on the session
    redis,          \* the Redis keys: session id -> stored session
    procs,          \* the store operation each worker process is inside
    taxonomy_file,  \* the taxonomy file: its content and modification time
    agent           \* a PolicyResearchAgent: cached payload, mtime, position

vars == <<clients, messages, tool_results, now, last, pc, turn, actions,
          tool_runs, llm_calls, gate, response, turns_done,
          redis, procs, taxonomy_file, agent>>

\* the state outside the session followed by the orchestrator
environmentVars == <<redis, procs, taxonomy_file, agent>>

\* no worker process and no policy research agent is followed
EnvironmentIdle ==
    /\ redis = <<>>
    /\ procs = <<>>
    /\ taxonomy_file = <<>>
    /\ agent = <<>>

-----------------------------------------------------------------------------
(* Values and string functions                                             *)

None == "<None>"

\* str.strip() on the universe of strings
Strip(s) ==
    CASE s = " " -> ""
      [] s = "ann " -> "ann"
      [] s = "bali " -> "bali"
      [] s = "hiking " -> "hiking"
      [] OTHER -> s

\* str.lower()
Lower(s) ==
    CASE s = "Ann" -> "ann"
      [] s = "Bob" -> "bob"
      [] s = "A@x" -> "a@x"
      [] s = "C1" -> "c1"
      [] s = "P1" -> "p1"
      [] s = "P2" -> "p2"
      [] s = "Bali" -> "bali"
      [] s = "Osaka" -> "osaka"
      [] s = "Hiking" -> "hiking"
      [] s = "Diving" -> "diving"
      [] s = "Cy" -> "cy"
      [] s = "Single" -> "single"
      [] OTHER -> s

\* str.upper()
Upper(s) ==
    CASE s = "p1" -> "P1"
      [] s = "p2" -> "P2"
      [] s = "a@x" -> "A@X"
      [] s = "b@x" -> "B@X"
      [] s = "c1" -> "C1"
      [] OTHER -> s

\* "".join(ch for ch in phone if ch.isdigit())
Digits(s) ==
    CASE s = "+65 1" -> "651"
      [] s = " " -> ""
      [] OTHER -> s

\* _is_blank on scalars: None or a whitespace-only string
_is_blank(value) == value = None \/ Strip(value) = ""

\* _is_blank / truthiness on a dict or list
IsEmptyDict(d) == DOMAIN d = {}

\* {**a, **b}
DictUpdate(a, b) ==
    [k \in DOMAIN a \cup DOMAIN b |-> IF k \in DOMAIN b THEN b[k] ELSE a[k]]

\* {k: v for k, v in fields.items() if not _is_blank(v)}; a value that is a
\* tuple (the travel dates) is blank when empty
DropBlank(d, blankKeys) == [k \in DOMAIN d \ blankKeys |-> d[k]]

-----------------------------------------------------------------------------
(* PersonalInfo, TripDetails, VerificationRecord, ClientDatum              *)

PersonalFieldNames ==
    <<"name", "email_address", "phone_number", "date_of_birth",
      "place_of_residence", "passport_number">>

PersonalFieldSet == {PersonalFieldNames[i] : i \in DOMAIN PersonalFieldNames}

\* the scalar fields of TripDetails, in declaration order (metadata is the
\* eighth field and is a dict)
TripScalarNames ==
    <<"trip_id", "destination", "start_date", "end_date", "trip_type",
      "trip_cost", "notes">>

TripScalarSet == {TripScalarNames[i] : i \in DOMAIN TripScalarNames}

EmptyPersonalInfo == [f \in PersonalFieldSet |-> None]

EmptyTrip ==
    [trip_id |-> None, destination |-> None, start_date |-> None,
     end_date |-> None, trip_type |-> None, trip_cost |-> None,
     notes |-> None, metadata |-> <<>>]

EmptyVerification ==
    [status |-> "unknown", requested_at |-> 0, confirmed_at |-> 0,
     fields |-> <<>>]

EmptyClient ==
    [client_id |-> None, source |-> None, personal_info |-> EmptyPersonalInfo,
     trips |-> <<>>, interests |-> <<>>, extra |-> <<>>,
     verification |-> EmptyVerification]

\* labels of the blank fields of `rec`, in the order of `pairs`
MissingLabels(rec, pairs) ==
    LET blank == SelectSeq(pairs, LAMBDA p : _is_blank(rec[p[1]]))
    IN  [i \in 1..Len(blank) |-> blank[i][2]]

missing_fields(trip) ==
    MissingLabels(trip,
        << <<"destination", "Trip destination">>,
           <<"start_date", "Trip start date">>,
           <<"end_date", "Trip end date">>,
           <<"trip_type", "Trip type">>,
           <<"trip_cost", "Trip cost">> >>)

\* index of the preferred trip: the first trip with no missing field, else
\* the first trip, else 0 (None)
select_preferred_trip_first(client) ==
    IF Len(client.trips) = 0 THEN 0 ELSE 1

select_preferred_trip(client) ==
    IF Len(client.trips) = 0 THEN 0
    ELSE LET full == {i \in 1..Len(client.trips) :
                         missing_fields(client.trips[i]) = <<>>}
         IN  IF full # {}
             THEN CHOOSE i \in full : \A j \in full : i <= j
             ELSE 1

required_missing_fields(client) ==
    LET personal ==
            MissingLabels(client.personal_info,
                << <<"name", "Name">>,
                   <<"email_address", "Email address">>,
                   <<"phone_number", "Phone number">>,
                   <<"date_of_birth", "Date of birth">>,
                   <<"place_of_residence", "Place of residence">>,
                   <<"passport_number", "Passport number">> >>)
        primary == select_preferred_trip(client)
    IN  IF Len(client.trips) = 0 THEN Append(personal, "Trip details")
        ELSE IF primary = 0 THEN Append(personal, "Trip details")
        ELSE personal \o missing_fields(client.trips[primary])

_format_trip_dates(trip) ==
    IF trip.start_date # None /\ trip.end_date # None
        THEN <<trip.start_date, "->", trip.end_date>>
    ELSE IF trip.start_date # None THEN <<trip.start_date>>
    ELSE IF trip.end_date # None THEN <<trip.end_date>>
    ELSE <<>>

build_verification_fields(client) ==
    LET t == select_preferred_trip(client)
        p == client.personal_info
        base == [name |-> p.name, email_address |-> p.email_address,
                 passport_number |-> p.passport_number,
                 phone_number |-> p.phone_number]
        withTrip ==
            IF t = 0 THEN base
            ELSE DictUpdate(base,
                    [destination |-> client.trips[t].destination,
                     trip_type |-> client.trips[t].trip_type,
                     trip_cost |-> client.trips[t].trip_cost,
                     travel_dates |-> _format_trip_dates(client.trips[t])])
        blankKeys ==
            {k \in DOMAIN withTrip :
                IF k = "travel_dates" THEN withTrip[k] = <<>>
                ELSE _is_blank(withTrip[k])}
    IN  DropBlank(withTrip, blankKeys)

-----------------------------------------------------------------------------
(* Profile merge (client_context.py)                                       *)

_client_identity_keys(client) ==
    LET p == client.personal_info
    IN  (IF _is_blank(client.client_id) THEN {}
         ELSE {<<"client_id", Lower(client.client_id)>>})
        \cup (IF _is_blank(p.passport_number) THEN {}
              ELSE {<<"passport_number", Upper(Strip(p.passport_number))>>})
        \cup (IF _is_blank(p.email_address) THEN {}
              ELSE {<<"email_address", Lower(Strip(p.email_address))>>})
        \cup (IF _is_blank(p.phone_number) THEN {}
              ELSE {<<"phone_number", Digits(p.phone_number)>>})

\* (x or "").strip().lower()
NormName(x) == IF x = None THEN "" ELSE Lower(Strip(x))

\* the only index of `set`, or 0 when the set is not a singleton
OnlyIndex(set) == IF Cardinality(set) = 1 THEN CHOOSE i \in set : TRUE ELSE 0

\* a matching without the relaxed rules for a candidate without identity key
_find_matching_client_by_key_only(existing_clients, candidate) ==
    LET key_matches ==
            {i \in 1..Len(existing_clients) :
                _client_identity_keys(existing_clients[i])
                    \cap _client_identity_keys(candidate) # {}}
    IN  IF key_matches # {}
        THEN CHOOSE i \in key_matches : \A j \in key_matches : i <= j
        ELSE 0

\* index in existing_clients of the record the candidate merges into, 0 if none
_find_matching_client(existing_clients, candidate) ==
    LET n == Len(existing_clients)
        candidate_keys == _client_identity_keys(candidate)
        source_matches ==
            {i \in 1..n : existing_clients[i].source = candidate.source}
        candidate_name == NormName(candidate.personal_info.name)
        name_matches ==
            {i \in 1..n :
                NormName(existing_clients[i].personal_info.name) = candidate_name}
        key_matches ==
            {i \in 1..n :
                _client_identity_keys(existing_clients[i]) \cap candidate_keys # {}}
    IN  IF candidate_keys = {}
        THEN IF n = 1 THEN 1
             ELSE IF candidate.source # None /\ candidate.source # ""
                     /\ Cardinality(source_matches) = 1
                  THEN OnlyIndex(source_matches)
             ELSE IF candidate_name # "" /\ Cardinality(name_matches) = 1
                  THEN OnlyIndex(name_matches)
             ELSE 0
        ELSE IF key_matches # {}
             THEN CHOOSE i \in key_matches : \A j \in key_matches : i <= j
             ELSE 0

_merge_personal_info_always(target, source, prefer_source) ==
    [f \in PersonalFieldSet |->
        IF ~_is_blank(source[f]) THEN source[f] ELSE target[f]]

_merge_personal_info(target, source, prefer_source) ==
    [f \in PersonalFieldSet |->
        IF _is_blank(source[f]) THEN target[f]
        ELSE IF _is_blank(target[f]) \/ prefer_source THEN source[f]
        ELSE target[f]]

RECURSIVE MergeInterestsFrom(_, _, _, _)
MergeInterestsFrom(values, i, combined, seen) ==
    IF i > Len(values) THEN combined
    ELSE LET value == values[i]
             normalized == Strip(value)
             key == Lower(normalized)
         IN  IF _is_blank(value) \/ key \in seen
             THEN MergeInterestsFrom(values, i + 1, combined, seen)
             ELSE MergeInterestsFrom(values, i + 1,
                                     Append(combined, normalized),
                                     seen \cup {key})

_merge_interests(existing, incoming) ==
    MergeInterestsFrom(existing \o incoming, 1, <<>>, {})

\* a key that leaves the destination out
_trip_identity_key_by_dates(trip) ==
    IF ~_is_blank(trip.trip_id) THEN <<"trip_id", trip.trip_id, "", "">>
    ELSE IF ~_is_blank(trip.destination) /\ ~_is_blank(trip.start_date)
    THEN <<"", trip.start_date,
           IF trip.end_date # None THEN trip.end_date ELSE "",
           IF trip.trip_type # None THEN trip.trip_type ELSE "">>
    ELSE <<>>

\* the identity key of a trip; <<>> stands for None
_trip_identity_key(trip) ==
    IF ~_is_blank(trip.trip_id) THEN <<"trip_id", trip.trip_id, "", "">>
    ELSE IF ~_is_blank(trip.destination) /\ ~_is_blank(trip.start_date)
    THEN <<Lower(Strip(trip.destination)),
           trip.start_date,
           IF trip.end_date # None THEN trip.end_date ELSE "",
           IF trip.trip_type # None THEN trip.trip_type ELSE "">>
    ELSE <<>>

\* index of the first trip with the candidate's key, 0 (None) if the candidate
\* has no key or no trip has it
_locate_trip_index(trips, candidate) ==
    LET candidate_key == _trip_identity_key(candidate)
        same == {i \in 1..Len(trips) : _trip_identity_key(trips[i]) = candidate_key}
    IN  IF candidate_key = <<>> THEN 0
        ELSE IF same = {} THEN 0
        ELSE CHOOSE i \in same : \A j \in same : i <= j

_merge_trip(base_trip, new_trip, prefer_source) ==
    [f \in DOMAIN base_trip |->
        IF f = "metadata"
        THEN IF IsEmptyDict(new_trip.metadata) THEN base_trip.metadata
             ELSE DictUpdate(base_trip.metadata, new_trip.metadata)
        ELSE IF _is_blank(new_trip[f]) THEN base_trip[f]
        ELSE IF _is_blank(base_trip[f]) \/ prefer_source THEN new_trip[f]
        ELSE base_trip[f]]

RECURSIVE MergeTripsFrom(_, _, _, _)
MergeTripsFrom(merged, incoming_trips, i, prefer_source) ==
    IF i > Len(incoming_trips) THEN merged
    ELSE LET trip == incoming_trips[i]
             match_index == _locate_trip_index(merged, trip)
         IN  IF match_index = 0
             THEN MergeTripsFrom(Append(merged, trip), incoming_trips, i + 1,
                                 prefer_source)
             ELSE MergeTripsFrom(
                     [merged EXCEPT ![match_index] =
                         _merge_trip(merged[match_index], trip, prefer_source)],
                     incoming_trips, i + 1, prefer_source)

_merge_trips(existing_trips, incoming_trips, prefer_source) ==
    MergeTripsFrom(existing_trips, incoming_trips, 1, prefer_source)

priority(status) ==
    CASE status = "unknown" -> 0
      [] status = "pending" -> 1
      [] status = "confirmed" -> 2
      [] OTHER -> 0

\* the incoming record always wins
_merge_verification_incoming(current, incoming, t) ==
    [current EXCEPT !.status = incoming.status]

\* t is the value of _iso_now() at the call; the last branch of the source
\* (both priorities 0) is shadowed by the equal-priority branch
_merge_verification(current, incoming, t) ==
    LET current_priority == priority(current.status)
        incoming_priority == priority(incoming.status)
    IN  IF incoming_priority > current_priority
        THEN [current EXCEPT
                !.status = incoming.status,
                !.fields = IF ~IsEmptyDict(incoming.fields)
                           THEN incoming.fields ELSE current.fields,
                !.requested_at =
                    IF incoming.status = "pending" /\ incoming.requested_at = 0
                    THEN t
                    ELSE IF incoming.requested_at # 0
                         THEN incoming.requested_at
                         ELSE current.requested_at,
                !.confirmed_at =
                    IF incoming.confirmed_at # 0 THEN incoming.confirmed_at
                    ELSE IF incoming.status = "confirmed" THEN t
                    ELSE current.confirmed_at]
        ELSE IF incoming_priority = current_priority
        THEN [current EXCEPT
                !.fields = DictUpdate(current.fields, incoming.fields),
                !.requested_at =
                    IF incoming.requested_at # 0
                       /\ (current.requested_at = 0
                           \/ incoming.requested_at > current.requested_at)
                    THEN incoming.requested_at ELSE current.requested_at,
                !.confirmed_at =
                    IF incoming.confirmed_at # 0
                       /\ (current.confirmed_at = 0
                           \/ incoming.confirmed_at > current.confirmed_at)
                    THEN incoming.confirmed_at ELSE current.confirmed_at]
        ELSE current

_merge_client(target, source, t) ==
    LET prefer_source == source.verification.status = "confirmed"
    IN  [client_id |->
            IF _is_blank(target.client_id) /\ ~_is_blank(source.client_id)
            THEN source.client_id ELSE target.client_id,
         source |->
            IF _is_blank(target.source) /\ ~_is_blank(source.source)
            THEN source.source ELSE target.source,
         personal_info |->
            _merge_personal_info(target.personal_info, source.personal_info,
                                 prefer_source),
         interests |-> _merge_interests(target.interests, source.interests),
         trips |-> _merge_trips(target.trips, source.trips, prefer_source),
         extra |-> IF ~IsEmptyDict(source.extra)
                   THEN DictUpdate(target.extra, source.extra)
                   ELSE target.extra,
         verification |->
            _merge_verification(target.verification, source.verification, t)]

RECURSIVE MergeRecordsFrom(_, _, _, _)
MergeRecordsFrom(merged, incoming_clients, i, t) ==
    IF i > Len(incoming_clients) THEN merged
    ELSE LET candidate == incoming_clients[i]
             match == _find_matching_client(merged, candidate)
         IN  IF match = 0
             THEN MergeRecordsFrom(Append(merged, candidate), incoming_clients,
                                   i + 1, t)
             ELSE MergeRecordsFrom(
                     [merged EXCEPT ![match] =
                         _merge_client(merged[match], candidate, t)],
                     incoming_clients, i + 1, t)

merge_client_records(existing_clients, incoming_clients, t) ==
    MergeRecordsFrom(existing_clients, incoming_clients, 1, t)

\* merge_client_records on objects. `heap` gives the field values of each
\* ClientDatum object and the lists hold objects: `merged` is a new list of
\* the objects of existing_clients, an unmatched candidate is appended as the
\* object it is, and _merge_client assigns the fields of the matched object.
RECURSIVE MergeObjectsFrom(_, _, _, _, _)
MergeObjectsFrom(heap, merged, incoming_clients, i, t) ==
    IF i > Len(incoming_clients) THEN [heap |-> heap, merged |-> merged]
    ELSE LET candidate == incoming_clients[i]
             records == [k \in 1..Len(merged) |-> heap[merged[k]]]
             match == _find_matching_client(records, heap[candidate])
         IN  IF match = 0
             THEN MergeObjectsFrom(heap, Append(merged, candidate),
                                   incoming_clients, i + 1, t)
             ELSE MergeObjectsFrom(
                     [heap EXCEPT ![merged[match]] =
                         _merge_client(heap[merged[match]], heap[candidate], t)],
                     merged, incoming_clients, i + 1, t)

merge_client_records_objects(heap, existing_clients, incoming_clients, t) ==
    MergeObjectsFrom(heap, existing_clients, incoming_clients, 1, t)

-----------------------------------------------------------------------------
(* Payment-context enrichment (session_store.py)                           *)

\* _normalize_key on the universe of payload keys: camelCase split,
\* punctuation folded to "_", lowercased
_normalize_key(key) ==
    CASE key = "customerEmail" -> "customer_email"
      [] key = "Trip Destination" -> "trip_destination"
      [] key = "DOB" -> "dob"
      [] key = " " -> ""
      [] OTHER -> key

_PERSONAL_INFO_FIELD_MAP ==
    [customer_email |-> "email_address", email |-> "email_address",
     email_address |-> "email_address", contact_email |-> "email_address",
     name |-> "name", full_name |-> "name", customer_name |-> "name",
     traveller_name |-> "name", traveler_name |-> "name",
     phone |-> "phone_number", phone_number |-> "phone_number",
     contact_number |-> "phone_number", mobile |-> "phone_number",
     customer_phone |-> "phone_number",
     customer_phone_number |-> "phone_number",
     date_of_birth |-> "date_of_birth", dob |-> "date_of_birth",
     birth_date |-> "date_of_birth",
     passport |-> "passport_number", passport_number |-> "passport_number",
     place_of_residence |-> "place_of_residence",
     residence |-> "place_of_residence", home_city |-> "place_of_residence",
     city |-> "place_of_residence", address |-> "place_of_residence"]

_TRIP_FIELD_MAP ==
    [destination |-> "destination", trip_destination |-> "destination",
     travel_destination |-> "destination", destination_city |-> "destination",
     start_date |-> "start_date", trip_start_date |-> "start_date",
     departure_date |-> "start_date", travel_start |-> "start_date",
     end_date |-> "end_date", trip_end_date |-> "end_date",
     return_date |-> "end_date", travel_end |-> "end_date",
     trip_type |-> "trip_type", trip_category |-> "trip_type",
     trip_cost |-> "trip_cost", total_cost |-> "trip_cost",
     coverage_amount |-> "trip_cost", premium_amount |-> "trip_cost"]

\* the top-level keys read from the payload, in the order of the source
PaymentSourceKeys ==
    <<"customer_email", "customer_name", "customer_phone",
      "customer_phone_number", "traveller_name", "traveler_name",
      "phone_number", "passport_number", "date_of_birth",
      "place_of_residence", "destination", "trip_destination",
      "trip_start_date", "trip_end_date", "trip_type", "trip_cost">>

\* _parse_date on the universe of date texts (ISO first, then _DATE_FORMATS)
_parse_date(value) ==
    CASE value = "2025-12-01" -> "2025-12-01"
      [] value = "2025-12-10" -> "2025-12-10"
      [] value = "1990-01-01" -> "1990-01-01"
      [] value = "01 January 1990" -> "1990-01-01"
      [] value = "2025/12/01" -> "2025-12-01"
      [] value = "10.12.2025" -> "2025-12-10"
      [] OTHER -> None

\* _parse_float on the universe of cost texts
_parse_float(value) ==
    CASE value = "100" -> "100"
      [] value = "$100.00" -> "100"
      [] value = "SGD 1,800" -> "1800"
      [] value = "0" -> "0"
      [] OTHER -> None

_normalize_trip_type(value) ==
    LET text == Lower(Strip(value))
    IN  IF value = None \/ text = "" THEN None
        ELSE IF text \in {"single", "single_trip", "single-trip", "one_way",
                          "one-way"} THEN "single"
        ELSE IF text \in {"round", "round_trip", "round-trip", "return",
                          "return_trip", "roundtrip"} THEN "round"
        ELSE None

_is_blank_value(value) == value = None \/ Strip(value) = ""

_normalize_personal_info_value(field_name, value) ==
    IF _is_blank_value(value) THEN None
    ELSE IF field_name = "date_of_birth" THEN _parse_date(Strip(value))
    ELSE IF field_name = "email_address" THEN Lower(Strip(value))
    ELSE IF field_name \in {"name", "place_of_residence", "passport_number",
                            "phone_number"} THEN Strip(value)
    ELSE None

_normalize_trip_value(field_name, value) ==
    IF _is_blank_value(value) THEN None
    ELSE IF field_name \in {"start_date", "end_date"} THEN _parse_date(Strip(value))
    ELSE IF field_name = "trip_cost" THEN _parse_float(Strip(value))
    ELSE IF field_name = "trip_type" THEN _normalize_trip_type(value)
    ELSE IF field_name = "destination" THEN Strip(value)
    ELSE None

\* a comparison that never finds two values equal
_values_equal_never(current, new) == FALSE

\* both operands are strings (or None) in this model
_values_equal(current, new) ==
    IF current # None /\ new # None THEN Strip(current) = Strip(new)
    ELSE current = new

\* the items the source passes to _collect, in order: the known top-level
\* keys present in the payload, then the metadata items
CollectedItems(payload) ==
    LET present == SelectSeq(PaymentSourceKeys,
                             LAMBDA k : k \in DOMAIN payload.top)
    IN  [i \in 1..Len(present) |-> <<present[i], payload.top[present[i]]>>]
        \o payload.metadata

RECURSIVE CollectFrom(_, _, _)
CollectFrom(items, i, aggregated) ==
    IF i > Len(items) THEN aggregated
    ELSE LET normalized_key == _normalize_key(items[i][1])
             value == items[i][2]
             seen == {aggregated[j][1] : j \in 1..Len(aggregated)}
         IN  IF normalized_key = "" \/ _is_blank_value(value)
                \/ normalized_key \in seen
             THEN CollectFrom(items, i + 1, aggregated)
             ELSE CollectFrom(items, i + 1,
                              Append(aggregated, <<normalized_key, value>>))

\* the personal-info loop: the info after it and whether a field was set
RECURSIVE EnrichPersonalFrom(_, _, _, _)
EnrichPersonalFrom(personal_info, aggregated, i, updated) ==
    IF i > Len(aggregated) THEN [info |-> personal_info, updated |-> updated]
    ELSE LET key == aggregated[i][1]
             field_name == IF key \in DOMAIN _PERSONAL_INFO_FIELD_MAP
                           THEN _PERSONAL_INFO_FIELD_MAP[key] ELSE None
             normalized_value ==
                 _normalize_personal_info_value(field_name, aggregated[i][2])
         IN  IF field_name = None \/ normalized_value = None
                \/ _values_equal(personal_info[field_name], normalized_value)
             THEN EnrichPersonalFrom(personal_info, aggregated, i + 1, updated)
             ELSE EnrichPersonalFrom(
                     [personal_info EXCEPT ![field_name] = normalized_value],
                     aggregated, i + 1, TRUE)

RECURSIVE TripUpdatesFrom(_, _, _)
TripUpdatesFrom(aggregated, i, trip_updates) ==
    IF i > Len(aggregated) THEN trip_updates
    ELSE LET key == aggregated[i][1]
             trip_field == IF key \in DOMAIN _TRIP_FIELD_MAP
                           THEN _TRIP_FIELD_MAP[key] ELSE None
             normalized_value ==
                 _normalize_trip_value(trip_field, aggregated[i][2])
         IN  IF trip_field = None \/ normalized_value = None
             THEN TripUpdatesFrom(aggregated, i + 1, trip_updates)
             ELSE TripUpdatesFrom(aggregated, i + 1,
                     DictUpdate(trip_updates,
                                [k \in {trip_field} |-> normalized_value]))

\* returns the enriched client and the flag `updated`
_enrich_client_from_payment_payload(client, payload) ==
    LET aggregated == CollectFrom(CollectedItems(payload), 1, <<>>)
        enrichedInfo ==
            EnrichPersonalFrom(client.personal_info, aggregated, 1, FALSE)
        personal == enrichedInfo.info
        trip_updates == TripUpdatesFrom(aggregated, 1, <<>>)
        t == select_preferred_trip(client)
        base_trips == IF t = 0 THEN Append(client.trips, EmptyTrip)
                      ELSE client.trips
        ti == IF t = 0 THEN Len(base_trips) ELSE t
        new_trip ==
            [f \in DOMAIN EmptyTrip |->
                IF f \in DOMAIN trip_updates
                   /\ ~_values_equal(base_trips[ti][f], trip_updates[f])
                THEN trip_updates[f] ELSE base_trips[ti][f]]
        trips == IF IsEmptyDict(trip_updates) THEN client.trips
                 ELSE [base_trips EXCEPT ![ti] = new_trip]
        updated ==
            \/ enrichedInfo.updated
            \/ /\ ~IsEmptyDict(trip_updates)
               /\ new_trip # base_trips[ti]
        enriched == [client EXCEPT !.personal_info = personal, !.trips = trips]
    IN  IF aggregated = <<>> THEN [client |-> client, updated |-> FALSE]
        ELSE [client |->
                IF updated /\ client.verification.status # "confirmed"
                THEN [enriched EXCEPT !.verification.fields =
                                          build_verification_fields(enriched)]
                ELSE enriched,
              updated |-> updated]

\* a tool input is [is_dict, top, has_metadata, metadata]: `top` maps its
\* top-level keys other than "metadata" to their values, `metadata` lists the
\* items of payload["metadata"] in order (empty when that is not a dict).
\* not isinstance(payload, dict) or not payload
IsEmptyPayload(payload) ==
    ~payload.is_dict \/ (DOMAIN payload.top = {} /\ ~payload.has_metadata)

apply_payment_context(roster, payload) ==
    IF IsEmptyPayload(payload) \/ roster = <<>> THEN roster
    ELSE [i \in 1..Len(roster) |->
            IF required_missing_fields(roster[i]) = <<>> THEN roster[i]
            ELSE _enrich_client_from_payment_payload(roster[i], payload).client]

-----------------------------------------------------------------------------
(* Payment readiness gate and verification (session_store.py)              *)

\* the result dict, with absent keys filled by None / empty values
Readiness(status, client_id, missing, fields) ==
    [status |-> status, client_id |-> client_id, missing |-> missing,
     fields |-> fields]

\* the gate without the fallback to build_verification_fields
RECURSIVE EvaluateFromStoredFields(_, _)
EvaluateFromStoredFields(roster, i) ==
    IF i > Len(roster)
    THEN Readiness("ready", roster[1].client_id, <<>>, <<>>)
    ELSE IF required_missing_fields(roster[i]) # <<>>
    THEN Readiness("missing_fields", roster[i].client_id,
                   required_missing_fields(roster[i]), <<>>)
    ELSE IF roster[i].verification.status # "confirmed"
    THEN Readiness("unverified", roster[i].client_id, <<>>,
                   roster[i].verification.fields)
    ELSE EvaluateFromStoredFields(roster, i + 1)

\* the gate that stops at the first complete and confirmed client
RECURSIVE EvaluateFirstReady(_, _)
EvaluateFirstReady(roster, i) ==
    IF i > Len(roster)
    THEN Readiness("ready", roster[1].client_id, <<>>, <<>>)
    ELSE IF required_missing_fields(roster[i]) # <<>>
    THEN Readiness("missing_fields", roster[i].client_id,
                   required_missing_fields(roster[i]), <<>>)
    ELSE IF roster[i].verification.status # "confirmed"
    THEN Readiness("unverified", roster[i].client_id, <<>>,
                   IF ~IsEmptyDict(roster[i].verification.fields)
                   THEN roster[i].verification.fields
                   ELSE build_verification_fields(roster[i]))
    ELSE Readiness("ready", roster[i].client_id, <<>>, <<>>)

\* the loop over the roster, from client i on
RECURSIVE EvaluateFrom(_, _)
EvaluateFrom(roster, i) ==
    IF i > Len(roster)
    THEN Readiness("ready", roster[1].client_id, <<>>, <<>>)
    ELSE LET client == roster[i]
             missing == required_missing_fields(client)
         IN  IF missing # <<>>
             THEN Readiness("missing_fields", client.client_id, missing, <<>>)
             ELSE IF client.verification.status # "confirmed"
             THEN Readiness("unverified", client.client_id, <<>>,
                            IF ~IsEmptyDict(client.verification.fields)
                            THEN client.verification.fields
                            ELSE build_verification_fields(client))
             ELSE EvaluateFrom(roster, i + 1)

evaluate_payment_readiness_stored_fields(roster) ==
    IF roster = <<>> THEN Readiness("missing_clients", None, <<>>, <<>>)
    ELSE EvaluateFromStoredFields(roster, 1)

evaluate_payment_readiness_first_ready(roster) ==
    IF roster = <<>> THEN Readiness("missing_clients", None, <<>>, <<>>)
    ELSE EvaluateFirstReady(roster, 1)

evaluate_payment_readiness(roster) ==
    IF roster = <<>> THEN Readiness("missing_clients", None, <<>>, <<>>)
    ELSE EvaluateFrom(roster, 1)

\* `if x` on an optional string
Truthy(x) == x # None /\ x # ""

\* a matching on an equal client_id only
_matches_client_by_id_only(client_payload, client_id) ==
    Truthy(client_id) /\ client_payload.client_id = client_id

_matches_client(client_payload, client_id) ==
    \/ Truthy(client_id) /\ client_payload.client_id = client_id
    \/ ~Truthy(client_id)
    \/ /\ Truthy(client_payload.personal_info.passport_number)
       /\ client_payload.personal_info.passport_number = client_id

\* the roster after request_verification; t is _iso_now()
request_verification(roster, client_id, fields, t) ==
    [i \in 1..Len(roster) |->
        IF _matches_client(roster[i], client_id)
        THEN [roster[i] EXCEPT !.verification =
                [status |-> "pending", fields |-> fields,
                 requested_at |-> t, confirmed_at |-> 0]]
        ELSE roster[i]]

\* user messages: user_message.strip().lower() and the tests made on it
MessageText(user_message) ==
    CASE user_message = "Confirmed" -> "confirmed"
      [] user_message = " " -> ""
      [] user_message = "Yes please" -> "yes please"
      [] user_message = "Is this correct?" -> "is this correct?"
      [] OTHER -> user_message

\* "?" in text
HasQuestionMark(text) == text \in {"is this correct?"}

\* any(phrase in text for phrase in confirmation_phrases)
HasConfirmationPhrase(text) == text \in {"confirmed", "is this correct?"}

\* text.split()[0], "" when there is no token
FirstToken(text) ==
    CASE text = "yes please" -> "yes"
      [] text = "is this correct?" -> "is"
      [] OTHER -> text

is_confirmation(user_message) ==
    LET text == MessageText(user_message)
    IN  /\ text # ""
        /\ ~HasQuestionMark(text)
        /\ \/ HasConfirmationPhrase(text)
           \/ FirstToken(text) \in {"yes", "yup", "yeah", "sure", "ok", "okay"}

\* a confirmation that marks every client that is not confirmed yet
try_mark_verification_any(roster, user_message, t) ==
    IF ~is_confirmation(user_message) THEN roster
    ELSE [i \in 1..Len(roster) |->
            IF roster[i].verification.status # "confirmed"
            THEN [roster[i] EXCEPT !.verification.status = "confirmed",
                                   !.verification.confirmed_at = t]
            ELSE roster[i]]

\* the roster after try_mark_verification; t is _iso_now()
try_mark_verification(roster, user_message, t) ==
    IF ~is_confirmation(user_message) THEN roster
    ELSE [i \in 1..Len(roster) |->
            IF roster[i].verification.status = "pending"
            THEN [roster[i] EXCEPT !.verification.status = "confirmed",
                                   !.verification.confirmed_at = t]
            ELSE roster[i]]

\* merge_clients normalisation: the channel is stamped on a client without
\* a source
NormalizeSource(client, source) ==
    IF Truthy(source) /\ ~Truthy(client.source)
    THEN [client EXCEPT !.source = source] ELSE client

\* the roster stored by merge_clients
merge_clients_roster(roster, incoming, source, t) ==
    IF incoming = <<>> THEN roster
    ELSE merge_client_records(roster,
            [i \in 1..Len(incoming) |-> NormalizeSource(incoming[i], source)], t)

-----------------------------------------------------------------------------
(* Bounds and input sets                                                   *)

MaxTrips == 2          \* trips of a drawn client / existing trip list
MaxIncomingTrips == 1  \* trips of a drawn incoming trip list
MaxBatch == 2          \* candidates merged to build a drawn roster
MaxRoster == 2         \* clients of a drawn roster of the readiness gate
MaxStamp == 1          \* largest timestamp of a drawn verification record

\* all sequences over S of length at most n
SeqsUpTo(S, n) == UNION {[1..k -> S] : k \in 0..n}

PersonOf(name, email, phone, dob, residence, passport) ==
    [name |-> name, email_address |-> email, phone_number |-> phone,
     date_of_birth |-> dob, place_of_residence |-> residence,
     passport_number |-> passport]

TripOf(id, destination, start, end, type, cost) ==
    [trip_id |-> id, destination |-> destination, start_date |-> start,
     end_date |-> end, trip_type |-> type, trip_cost |-> cost,
     notes |-> None, metadata |-> <<>>]

VerificationOf(status, requested_at, confirmed_at, fields) ==
    [status |-> status, requested_at |-> requested_at,
     confirmed_at |-> confirmed_at, fields |-> fields]

ClientOf(client_id, source, info, trips, status) ==
    [client_id |-> client_id, source |-> source, personal_info |-> info,
     trips |-> trips, interests |-> <<>>, extra |-> <<>>,
     verification |-> VerificationOf(status, 0, 0, <<>>)]

BaliTrip == TripOf(None, "Bali", "2025-12-01", "2025-12-10", "single", "100")
OsakaTrip == TripOf("t1", "Osaka", "2025-12-01", "2025-12-10", "round", "0")

AnnInfo == PersonOf("Ann", "a@x", "+65 1", "1990-01-01", "SG", "p1")
BobInfo == PersonOf("Bob", "b@x", "2", "1991-02-02", "MY", "P2")

\* --- required_missing_fields: clients by blank pattern ---

\* personal infos: complete, one field blank (None), a whitespace name, all
\* blank
RequiredInfos ==
    {AnnInfo, EmptyPersonalInfo, [AnnInfo EXCEPT !.name = " "]}
    \cup {[AnnInfo EXCEPT ![f] = None] : f \in PersonalFieldSet}

\* trips: complete, one required field blank, a whitespace destination, empty
RequiredTrips ==
    {BaliTrip, EmptyTrip, [BaliTrip EXCEPT !.destination = " "]}
    \cup {[BaliTrip EXCEPT ![f] = None] :
            f \in {"destination", "start_date", "end_date", "trip_type",
                   "trip_cost"}}

\* the parts of a client that are not read by required_missing_fields
RequiredDecor ==
    {[interests |-> <<>>, extra |-> <<>>, verification |-> EmptyVerification],
     [interests |-> <<"Hiking">>, extra |-> [tier |-> "gold"],
      verification |-> VerificationOf("confirmed", 1, 1, [name |-> "Ann"])]}

RequiredInputs ==
    {[client_id |-> None, source |-> None, personal_info |-> info,
      trips |-> trips, interests |-> d.interests, extra |-> d.extra,
      verification |-> d.verification] :
        info \in RequiredInfos, trips \in SeqsUpTo(RequiredTrips, MaxTrips),
        d \in RequiredDecor}

\* --- _merge_verification: pairs of records ---

VerificationInputs ==
    {VerificationOf(st, r, c, f) :
        st \in {"unknown", "pending", "confirmed"},
        r \in 0..MaxStamp, c \in 0..MaxStamp,
        f \in {<<>>, [name |-> "Ann"], [name |-> "Bob", destination |-> "Bali"]}}

\* --- _merge_trips: trip lists ---

TripPool ==
    {BaliTrip,
     [BaliTrip EXCEPT !.destination = "bali ", !.trip_cost = "0"],
     [BaliTrip EXCEPT !.destination = "Osaka"],
     [BaliTrip EXCEPT !.start_date = None],
     [BaliTrip EXCEPT !.trip_id = "t1"],
     OsakaTrip,
     [OsakaTrip EXCEPT !.trip_id = None, !.end_date = None, !.trip_type = None]}

\* --- PolicyResearchAgent (agents/policy_researcher.py) ---

MaxProducts == 2   \* names of a drawn recommended_products list

\* a taxonomy entry of a layer: its name and the products of its `products`
\* map that carry a payload
TaxonomyEntry(name, products) == [name |-> name, products |-> products]

\* a taxonomy with entries for "Product A" and "Product B"
TaxonomyAB ==
    [declared |-> <<>>,
     general_conditions |-> <<TaxonomyEntry("age limit", {"Product A"})>>,
     benefits |-> <<TaxonomyEntry("medical", {"Product A", "Product B"})>>,
     benefit_conditions |-> <<>>]

\* a taxonomy without entries
TaxonomyNone ==
    [declared |-> <<>>, general_conditions |-> <<>>, benefits |-> <<>>,
     benefit_conditions |-> <<>>]

PolicyTaxonomies == {TaxonomyAB, TaxonomyNone}

\* product names in sorted order
ProductOrder == <<"Ghost", "Product A", "Product B">>

ProductNames == {"Product A", "Ghost", " "}

\* the products named by any entry of the taxonomy
TaxonomyProducts(taxonomy) ==
    UNION {{taxonomy.general_conditions[i].products :
                i \in 1..Len(taxonomy.general_conditions)},
           {taxonomy.benefits[i].products : i \in 1..Len(taxonomy.benefits)},
           {taxonomy.benefit_conditions[i].products :
                i \in 1..Len(taxonomy.benefit_conditions)}}

_normalize_product_list(raw_products) ==
    LET kept == SelectSeq(raw_products, LAMBDA item : Strip(item) # "")
    IN  [i \in 1..Len(kept) |-> Strip(kept[i])]

_normalize_tiers(raw_tiers, target_length) ==
    [i \in 1..target_length |->
        IF i <= Len(raw_tiers) THEN Strip(raw_tiers[i]) ELSE ""]

_extract_all_taxonomy_products(taxonomy) ==
    IF _normalize_product_list(taxonomy.declared) # <<>>
    THEN _normalize_product_list(taxonomy.declared)
    ELSE SelectSeq(ProductOrder,
                   LAMBDA name : name \in UNION TaxonomyProducts(taxonomy))

\* the resolved products and tiers
_resolve_products_and_tiers(raw_products, raw_tiers, taxonomy) ==
    LET products == _normalize_product_list(raw_products)
        fallback_products == _extract_all_taxonomy_products(taxonomy)
    IN  IF products # <<>>
        THEN [products |-> products,
              tiers |-> _normalize_tiers(raw_tiers, Len(products))]
        ELSE [products |-> fallback_products,
              tiers |-> _normalize_tiers(raw_tiers, Len(fallback_products))]

_filter_product_entries(entries, product) ==
    LET kept == SelectSeq(entries, LAMBDA entry : product \in entry.products)
    IN  [i \in 1..Len(kept) |-> kept[i].name]

\* the context as the list of its sections, each of which is dumped as a
\* YAML text with the five keys below; the text is blank only when there is
\* no section
_render_taxonomy_context(products, tiers, taxonomy) ==
    [i \in 1..Len(products) |->
        [product |-> products[i],
         tier |-> IF i <= Len(tiers) THEN tiers[i] ELSE "",
         general_conditions |->
            _filter_product_entries(taxonomy.general_conditions, products[i]),
         benefits |-> _filter_product_entries(taxonomy.benefits, products[i]),
         benefit_conditions |->
            _filter_product_entries(taxonomy.benefit_conditions, products[i])]]

ContextIsBlank(context) == context = <<>>

\* the state after the node prepare_context
_prepare_context(raw_products, raw_tiers, taxonomy) ==
    LET resolved == _resolve_products_and_tiers(raw_products, raw_tiers, taxonomy)
    IN  IF resolved.products = <<>>
        THEN [recommended_products |-> <<>>, tiers |-> <<>>,
              taxonomy_context |-> <<>>]
        ELSE [recommended_products |-> resolved.products,
              tiers |-> resolved.tiers,
              taxonomy_context |->
                _render_taxonomy_context(resolved.products, resolved.tiers,
                                         taxonomy)]

\* the node llm_reasoning calls the LLM unless this holds
LLMSkipped(state) ==
    state.recommended_products = <<>> \/ ContextIsBlank(state.taxonomy_context)

\* what the call of the LLM gives
LLMOutcomes == {"raises", "products", "no_products", "not_json"}

\* the products and raw output the node llm_reasoning leaves in the state
_llm_reasoning(state, outcome) ==
    IF LLMSkipped(state)
    THEN [products |-> <<>>, raw |-> None, llm_invocations |-> 0]
    ELSE CASE outcome = "raises" ->
                [products |-> <<>>, raw |-> "llm_failure", llm_invocations |-> 1]
           [] outcome = "products" ->
                [products |-> <<"eligible benefits">>, raw |-> "products",
                 llm_invocations |-> 1]
           [] OTHER ->
                [products |-> <<>>, raw |-> outcome, llm_invocations |-> 1]

\* --- merge_client_records: rosters and candidates ---

\* Ann, known by id, email, phone and passport
Ann ==
    [ClientOf("c1", "web", AnnInfo, <<BaliTrip>>, "unknown")
        EXCEPT !.interests = <<"Hiking">>, !.extra = [tier |-> "gold"]]

\* a confirmed record of the same person (same email up to case), with other
\* values in every field and the same trip up to the spelling of "Bali"
AnnConfirmed ==
    [ClientOf(None, "whatsapp",
              PersonOf("Bob", "A@x", "651", "1991-02-02", "MY", "P1"),
              <<TripOf(None, "bali ", "2025-12-01", "2025-12-10", "single", "0")>>,
              "confirmed")
        EXCEPT !.interests = <<"hiking ", "Diving">>,
               !.extra = [tier |-> "silver"]]

\* an unconfirmed record of the same person with other values
AnnOther ==
    ClientOf("C1", None,
             PersonOf("ann ", "a@x", "2", "1991-02-02", "MY", " "),
             <<[BaliTrip EXCEPT !.trip_cost = "0", !.notes = "window seat"]>>,
             "pending")

\* Bob, complete, without client_id
Bob == ClientOf(None, "web", BobInfo, <<OsakaTrip>>, "unknown")

\* Bob's trip t1 with another destination
BobRebooked ==
    ClientOf(None, None, PersonOf(None, "b@x", None, None, None, None),
             <<[OsakaTrip EXCEPT !.destination = "Bali"]>>, "unknown")

\* a record without any identity key, with a name and a trip that has
\* neither trip_id nor start_date
NamedOnly ==
    ClientOf(None, None, PersonOf("Ann", None, None, None, None, None),
             <<TripOf(None, "Bali", None, None, None, None)>>, "unknown")

\* a record without identity key, source or name
Anonymous ==
    [ClientOf(None, None, EmptyPersonalInfo, <<>>, "unknown")
        EXCEPT !.interests = <<"Diving">>]

\* a record without identity key that has a source and a name
SourcedOnly ==
    ClientOf(None, "gmail", PersonOf("Ann", None, None, None, None, None),
             <<>>, "unknown")

\* an incomplete record with an identity key
Partial ==
    ClientOf("c2", "gmail", PersonOf("Cy", "c@x", None, None, None, None),
             <<>>, "unknown")

ClientPool ==
    {Ann, AnnConfirmed, AnnOther, Bob, BobRebooked, NamedOnly, Anonymous,
     SourcedOnly, Partial}

\* --- evaluate_payment_readiness: rosters ---

GateClients ==
    {Ann, Bob, Partial, NamedOnly,
     [Ann EXCEPT !.verification = VerificationOf("confirmed", 1, 1, <<>>)],
     [Bob EXCEPT !.verification = VerificationOf("confirmed", 1, 1, <<>>)],
     [Bob EXCEPT !.verification =
                    VerificationOf("pending", 1, 0, [name |-> "Bob"])],
     [Ann EXCEPT !.trips = <<[BaliTrip EXCEPT !.trip_cost = None], OsakaTrip>>]}

\* rosters the store can hold: an empty session after merge_clients of a
\* batch of candidates
MergeRosters ==
    {merge_client_records(<<>>, batch, 1) : batch \in SeqsUpTo(ClientPool, MaxBatch)}

GateRosters == SeqsUpTo(GateClients, MaxRoster)

\* user messages given to try_mark_verification
ConfirmationInputs ==
    {"Confirmed", "Yes please", "Is this correct?", "hello", " "}

\* candidates passed as objects to merge_client_records
ObjectPool == {Ann, AnnOther, AnnConfirmed, Bob}

\* the objects first..last in order
ObjectsFrom(first, last_object) ==
    [k \in 1..(last_object + 1 - first) |-> first + k - 1]

\* --- payment-context enrichment: payloads, clients and rosters ---

\* a tool input that carries nothing
EmptyInput ==
    [is_dict |-> TRUE, top |-> <<>>, has_metadata |-> FALSE, metadata |-> <<>>]

\* a checkout input whose fields complete the record of Cy
CheckoutInput ==
    [is_dict |-> TRUE,
     top |-> [customer_email |-> "c@x", product |-> "basic"],
     has_metadata |-> TRUE,
     metadata |->
        << <<"passport", "p9">>, <<"DOB", "01 January 1990">>,
           <<"phone", "9">>, <<"city", "SG">>,
           <<"Trip Destination", "Osaka">>,
           <<"trip_start_date", "2025/12/01">>,
           <<"return_date", "10.12.2025">>,
           <<"trip_type", "Single">>, <<"total_cost", "$100.00">>,
           <<"reference_id", "REF-1">> >>]

\* a tool input that is a JSON string
TextInput ==
    [is_dict |-> FALSE, top |-> <<>>, has_metadata |-> FALSE, metadata |-> <<>>]

PayloadOf(top, metadata) ==
    [is_dict |-> TRUE, top |-> top, has_metadata |-> TRUE, metadata |-> metadata]

\* keys that match no alias
IrrelevantPayload ==
    PayloadOf([product |-> "basic"],
              << <<"order_ref", "REF-1">>, <<"currency", "SGD">> >>)

\* two aliases of the e-mail address with different values
TwoEmailsPayload ==
    PayloadOf([customer_email |-> "z@x"], << <<"email", "c@x">> >>)

\* other values for a name and a destination
OtherValuesPayload ==
    PayloadOf(<<>>, << <<"full_name", "Dee">>, <<"destination", "Osaka">> >>)

\* values that are blank or do not parse
UnusablePayload ==
    PayloadOf([passport_number |-> " "],
              << <<"dob", "soon">>, <<"trip_cost", "free">>,
                 <<"trip_type", "Cruise">>, <<" ", "x">> >>)

\* the e-mail address that Cy already has
SameEmailPayload ==
    PayloadOf([customer_email |-> "c@x"], <<>>)

EnrichPayloads ==
    {CheckoutInput, IrrelevantPayload, TwoEmailsPayload, OtherValuesPayload,
     UnusablePayload, SameEmailPayload, EmptyInput, TextInput}

EnrichClients == {Partial, NamedOnly, Ann, Bob, AnnConfirmed, Anonymous}

\* rosters the store can hold: an empty session after merge_clients of a
\* batch of candidates
EnrichRosters ==
    {merge_client_records(<<>>, batch, 1) :
        batch \in SeqsUpTo(EnrichClients, MaxRoster)}

-----------------------------------------------------------------------------
(* The functions applied to drawn inputs                                   *)

IdleResponse ==
    [output |-> None, actions |-> <<>>, tool_used |-> None, tool_runs |-> <<>>]

\* no handle_message call is running and the session holds only the roster
OrchestratorIdle ==
    /\ messages = <<>>
    /\ tool_results = <<>>
    /\ now = 1
    /\ pc = "idle"
    /\ turn = 0
    /\ actions = <<>>
    /\ tool_runs = <<>>
    /\ llm_calls = 0
    /\ gate = None
    /\ response = IdleResponse
    /\ turns_done = 0
    /\ EnvironmentIdle

orchestratorVars ==
    <<messages, tool_results, now, pc, turn, actions, tool_runs, llm_calls,
      gate, response, turns_done, environmentVars>>

InitPure ==
    /\ OrchestratorIdle
    /\ \/ \E c \in RequiredInputs :
            /\ clients = <<>>
            /\ last = [op |-> "required_missing_fields", done |-> FALSE,
                       client |-> c]
       \/ \E cur \in VerificationInputs, inc \in VerificationInputs :
            /\ clients = <<>>
            /\ last = [op |-> "_merge_verification", done |-> FALSE,
                       current |-> cur, incoming |-> inc]
       \/ \E ex \in SeqsUpTo(TripPool, MaxTrips),
             inc \in SeqsUpTo(TripPool, MaxIncomingTrips),
             prefer \in BOOLEAN :
            /\ clients = <<>>
            /\ last = [op |-> "_merge_trips", done |-> FALSE,
                       existing_trips |-> ex, incoming_trips |-> inc,
                       prefer_source |-> prefer]
       \/ \E r \in MergeRosters, c \in ClientPool :
            /\ clients = r
            /\ last = [op |-> "merge_client_records", count |-> 0,
                       candidate |-> c, before |-> r]
       \/ \E r \in GateRosters :
            /\ clients = r
            /\ last = [op |-> "evaluate_payment_readiness", done |-> FALSE]
       \/ \E r \in MergeRosters,
             batch \in SeqsUpTo(ObjectPool, MaxBatch) \ {<<>>} :
            /\ clients = <<>>
            /\ last = [op |-> "merge_client_records_objects",
                       stage |-> "start",
                       heap |-> r \o batch,
                       before |-> r \o batch,
                       existing_clients |-> ObjectsFrom(1, Len(r)),
                       incoming_clients |->
                            ObjectsFrom(Len(r) + 1, Len(r) + Len(batch)),
                       merged |-> <<>>]
       \/ \E r \in GateRosters, user_message \in ConfirmationInputs :
            /\ clients = r
            /\ last = [op |-> "try_mark_verification", done |-> FALSE,
                       user_message |-> user_message]
       \/ \E r \in EnrichRosters, payload \in EnrichPayloads :
            /\ clients = r
            /\ last = [op |-> "apply_payment_context", done |-> FALSE,
                       payload |-> payload]
       \/ \E c \in EnrichClients, payload \in EnrichPayloads \ {TextInput} :
            /\ clients = <<>>
            /\ last = [op |-> "_enrich_client_from_payment_payload",
                       done |-> FALSE, client |-> c, payload |-> payload]
       \/ \E products \in SeqsUpTo(ProductNames, MaxProducts),
             tiers \in {<<>>, <<"Gold">>}, taxonomy \in PolicyTaxonomies :
            /\ clients = <<>>
            /\ last = [op |-> "policy_research", stage |-> "start",
                       recommended_products |-> products, tiers |-> tiers,
                       taxonomy |-> taxonomy]

ApplyRequiredMissingFields ==
    /\ last.op = "required_missing_fields" /\ ~last.done
    /\ last' = [op |-> last.op, done |-> TRUE, client |-> last.client,
                result |-> required_missing_fields(last.client)]
    /\ UNCHANGED <<clients, orchestratorVars>>

ApplyMergeVerification ==
    /\ last.op = "_merge_verification" /\ ~last.done
    /\ last' = [op |-> last.op, done |-> TRUE, current |-> last.current,
                incoming |-> last.incoming,
                result |-> _merge_verification(last.current, last.incoming, now)]
    /\ UNCHANGED <<clients, orchestratorVars>>

ApplyMergeTrips ==
    /\ last.op = "_merge_trips" /\ ~last.done
    /\ last' = [op |-> last.op, done |-> TRUE,
                existing_trips |-> last.existing_trips,
                incoming_trips |-> last.incoming_trips,
                prefer_source |-> last.prefer_source,
                result |-> _merge_trips(last.existing_trips,
                                        last.incoming_trips,
                                        last.prefer_source)]
    /\ UNCHANGED <<clients, orchestratorVars>>

\* the candidate is merged into the stored roster, at most twice in a row
ApplyMergeClientRecords ==
    /\ last.op = "merge_client_records" /\ last.count < 2
    /\ clients' = merge_client_records(clients, <<last.candidate>>, now)
    /\ last' = [op |-> last.op, count |-> last.count + 1,
                candidate |-> last.candidate, before |-> clients]
    /\ UNCHANGED orchestratorVars

\* merge_client_records is called with the existing and the incoming objects
ApplyMergeClientObjects ==
    /\ last.op = "merge_client_records_objects" /\ last.stage = "start"
    /\ LET result == merge_client_records_objects(
                        last.heap, last.existing_clients,
                        last.incoming_clients, now)
       IN  last' = [last EXCEPT !.stage = "merged", !.heap = result.heap,
                                !.merged = result.merged]
    /\ UNCHANGED <<clients, orchestratorVars>>

\* a later call merges one more candidate, a new object, into the roster
\* that the first call returned
ApplyLaterMergeClientObjects ==
    /\ last.op = "merge_client_records_objects" /\ last.stage = "merged"
    /\ \E candidate \in ObjectPool :
        LET heap == Append(last.heap, candidate)
            result == merge_client_records_objects(
                        heap, last.merged, <<Len(heap)>>, now)
        IN  last' = [last EXCEPT !.stage = "merged_again",
                                 !.heap = result.heap,
                                 !.merged = result.merged]
    /\ UNCHANGED <<clients, orchestratorVars>>

\* the message is tried as a confirmation on the stored roster
ApplyTryMarkVerification ==
    /\ last.op = "try_mark_verification" /\ ~last.done
    /\ clients' = try_mark_verification(clients, last.user_message, now)
    /\ last' = [op |-> last.op, done |-> TRUE,
                user_message |-> last.user_message, before |-> clients]
    /\ UNCHANGED orchestratorVars

\* the gate reads the stored roster and writes nothing
ApplyEvaluatePaymentReadiness ==
    /\ last.op = "evaluate_payment_readiness" /\ ~last.done
    /\ last' = [op |-> last.op, done |-> TRUE, roster |-> clients,
                result |-> evaluate_payment_readiness(clients)]
    /\ UNCHANGED <<clients, orchestratorVars>>

\* the payload of a checkout input is applied to the stored roster
ApplyPaymentContext ==
    /\ last.op = "apply_payment_context" /\ ~last.done
    /\ clients' = apply_payment_context(clients, last.payload)
    /\ last' = [op |-> last.op, done |-> TRUE, payload |-> last.payload,
                before |-> clients]
    /\ UNCHANGED orchestratorVars

ApplyEnrichClient ==
    /\ last.op = "_enrich_client_from_payment_payload" /\ ~last.done
    /\ last' = [op |-> last.op, done |-> TRUE, client |-> last.client,
                payload |-> last.payload,
                result |-> _enrich_client_from_payment_payload(last.client,
                                                               last.payload)]
    /\ UNCHANGED <<clients, orchestratorVars>>

\* PolicyResearchAgent.run, node prepare_context
ApplyPrepareContext ==
    /\ last.op = "policy_research" /\ last.stage = "start"
    /\ last' = [op |-> last.op, stage |-> "prepared",
                recommended_products |-> last.recommended_products,
                tiers |-> last.tiers, taxonomy |-> last.taxonomy,
                state |-> _prepare_context(last.recommended_products,
                                           last.tiers, last.taxonomy)]
    /\ UNCHANGED <<clients, orchestratorVars>>

\* PolicyResearchAgent.run, node llm_reasoning and the returned result
ApplyLLMReasoning ==
    /\ last.op = "policy_research" /\ last.stage = "prepared"
    /\ \E outcome \in LLMOutcomes :
         last' = [op |-> last.op, stage |-> "done",
                  recommended_products |-> last.recommended_products,
                  tiers |-> last.tiers, taxonomy |-> last.taxonomy,
                  state |-> last.state,
                  result |-> _llm_reasoning(last.state, outcome)]
    /\ UNCHANGED <<clients, orchestratorVars>>

NextPure ==
    \/ ApplyRequiredMissingFields
    \/ ApplyMergeVerification
    \/ ApplyMergeTrips
    \/ ApplyMergeClientRecords
    \/ ApplyMergeClientObjects
    \/ ApplyLaterMergeClientObjects
    \/ ApplyEvaluatePaymentReadiness
    \/ ApplyTryMarkVerification
    \/ ApplyPaymentContext
    \/ ApplyEnrichClient
    \/ ApplyPrepareContext
    \/ ApplyLLMReasoning

SpecPure == InitPure /\ [][NextPure]_vars

-----------------------------------------------------------------------------
(* The orchestrator (core/orchestrator.py) on one session                  *)

max_rounds == 6

MaxTurns == 2      \* handle_message calls on the session
MaxClients == 2    \* clients of the stored roster
MaxClock == 2      \* the clock stops here

\* names of the tools registered by build_orchestrator
_tool_map ==
    {"policy_research", "claims_recommendation", "document_ingest",
     "travel_insurance_purchase", "payment_checkout", "payment_status"}

UnknownToolReply == "I'm sorry, I can't access the requested capability right now. Could you try rephrasing your question?"
MaxRoundsReply == "I'm sorry, I'm having trouble completing that request right now. Let's try again in a moment."

\* _compose_payment_guard_reply: one text per blocking status
_compose_payment_guard_reply(readiness) ==
    CASE readiness.status = "missing_clients" -> "guard: traveller profile needed"
      [] readiness.status = "missing_fields" -> "guard: details missing"
      [] readiness.status = "unverified" -> "guard: please confirm"
      [] OTHER -> "guard: complete and confirmed profile needed"

GuardReplies ==
    {"guard: traveller profile needed", "guard: details missing",
     "guard: please confirm", "guard: complete and confirmed profile needed"}

\* an entry of "actions" that is not an object
NotAnObject == [is_dict |-> FALSE, tool |-> None, input |-> EmptyInput]

ActionOf(tool, input) == [is_dict |-> TRUE, tool |-> tool, input |-> input]

\* replies of the LLM: `kind` tells how the text parses ("empty": "",
\* "text": not JSON, "json_string": a JSON string, "object": a JSON object);
\* for an object, actions_is_list tells whether it has a list under
\* "actions", and `action` is its legacy "action" key
ReplyOf(kind, output, acts) ==
    [kind |-> kind, output |-> output, actions_is_list |-> TRUE,
     actions |-> acts, action |-> None]

LLMReplies ==
    {ReplyOf("object", "done", <<>>),
     ReplyOf("object", "", <<>>),
     ReplyOf("object", "", <<ActionOf("policy_research", EmptyInput)>>),
     ReplyOf("object", "", <<ActionOf("payment_checkout", CheckoutInput)>>),
     ReplyOf("object", "", <<ActionOf("travel_insurance_quote", EmptyInput)>>),
     ReplyOf("object", "",
             <<NotAnObject, ActionOf("policy_research", TextInput)>>),
     ReplyOf("object", "",
             <<ActionOf(None, EmptyInput),
               ActionOf("policy_research", EmptyInput),
               ActionOf("payment_status", EmptyInput),
               ActionOf("travel_insurance_quote", EmptyInput),
               ActionOf("policy_research", EmptyInput)>>)}

UserMessages == {"Confirmed", "hello"}

\* results of a tool run
ToolResultsOf(tool_name) ==
    IF tool_name = "policy_research" THEN {"products"} ELSE {"ok"}

\* the dict handle_message works on after _coerce_json_payload: output and
\* the raw actions
_coerce_json_payload(reply) ==
    CASE reply.kind = "empty" -> [output |-> "", actions_is_list |-> TRUE,
                                  actions |-> <<>>, action |-> None]
      [] reply.kind \in {"text", "json_string", "json_other"} ->
            [output |-> reply.output, actions_is_list |-> TRUE,
             actions |-> <<>>, action |-> None]
      [] OTHER -> [output |-> reply.output,
                   actions_is_list |-> reply.actions_is_list,
                   actions |-> reply.actions, action |-> reply.action]

_extract_actions(payload) ==
    IF payload.actions_is_list
    THEN SelectSeq(payload.actions, LAMBDA a : a.is_dict)
    ELSE IF Truthy(payload.action)
    THEN <<ActionOf(payload.action, EmptyInput)>>
    ELSE <<>>

_normalize_output(value) == IF value = None THEN "" ELSE value

\* _compose_policy_research_summary on the results of the model
_compose_policy_research_summary(result) ==
    IF result = "products" THEN "summary of eligible products" ELSE ""

_compose_tool_fallback_reply(runs) ==
    IF runs = <<>> THEN ""
    ELSE IF runs[Len(runs)].name = "policy_research"
    THEN _compose_policy_research_summary(runs[Len(runs)].result)
    ELSE ""

\* the text _finalize_response returns and stores
FinalOutput(output, runs) ==
    IF Strip(output) = "" /\ _compose_tool_fallback_reply(runs) # ""
    THEN _compose_tool_fallback_reply(runs) ELSE output

\* _finalize_response: the assistant message is stored and the turn returns
_finalize_response(stored, output, acts, runs) ==
    /\ messages' = Append(stored,
            [role |-> "assistant",
             content |-> [output |-> FinalOutput(output, runs),
                          actions |-> acts]])
    /\ response' =
            [output |-> FinalOutput(output, runs), actions |-> acts,
             tool_used |-> IF runs = <<>> THEN None ELSE runs[Len(runs)].name,
             tool_runs |-> runs]
    /\ pc' = "idle"
    /\ actions' = <<>>

Tick(t) == IF t < MaxClock THEN t + 1 ELSE t

RosterWithinBounds(roster) ==
    /\ Len(roster) <= MaxClients
    /\ \A i \in 1..Len(roster) : Len(roster[i].trips) <= MaxTrips

\* candidates the channels hand to merge_clients
SessionCandidates == {AnnConfirmed, Bob, Partial}

NoOperation == [op |-> "none"]

Init ==
    /\ clients = <<>>
    /\ messages = <<>>
    /\ tool_results = <<>>
    /\ now = 1
    /\ last = NoOperation
    /\ pc = "idle"
    /\ turn = 0
    /\ actions = <<>>
    /\ tool_runs = <<>>
    /\ llm_calls = 0
    /\ gate = None
    /\ response = IdleResponse
    /\ turns_done = 0
    /\ EnvironmentIdle

turnVars == <<pc, turn, actions, tool_runs, llm_calls, gate, response, turns_done>>

\* the session is followed until its last turn has returned
SessionOpen == turns_done < MaxTurns \/ pc \notin {"idle", "raised"}

\* ConversationalOrchestrator.merge_clients, called by a channel endpoint
MergeClients(candidate, source) ==
    /\ SessionOpen
    /\ LET merged == merge_clients_roster(clients, <<candidate>>, source, now)
       IN  /\ RosterWithinBounds(merged)
           /\ merged # clients
           /\ clients' = merged
    /\ now' = Tick(now)
    /\ UNCHANGED <<environmentVars, messages, tool_results, last, turnVars>>

\* handle_message up to the loop: the user message is stored and a
\* confirmation marks the pending clients (no risk forecast is primed,
\* travel_risk_prediction is not a registered tool)
StartTurn(user_message) ==
    /\ pc \in {"idle", "raised"}
    /\ turns_done < MaxTurns
    /\ messages' = Append(messages, [role |-> "user", content |-> user_message])
    /\ clients' = try_mark_verification(clients, user_message, now)
    /\ now' = IF clients' # clients THEN Tick(now) ELSE now
    /\ pc' = "llm"
    /\ turn' = 0
    /\ actions' = <<>>
    /\ tool_runs' = <<>>
    /\ llm_calls' = 0
    /\ gate' = None
    /\ response' = IdleResponse
    /\ turns_done' = turns_done + 1
    /\ UNCHANGED <<environmentVars, tool_results, last>>

\* a loop condition that admits one round more
LoopContinuesInclusive == turn <= max_rounds

\* the condition of the while loop
LoopContinues == turn < max_rounds

\* one round of the loop: the LLM is called and its reply has actions
LLMRoundWithActions(reply) ==
    /\ pc = "llm"
    /\ LoopContinues
    /\ _extract_actions(_coerce_json_payload(reply)) # <<>>
    /\ turn' = turn + 1
    /\ llm_calls' = llm_calls + 1
    /\ actions' = _extract_actions(_coerce_json_payload(reply))
    /\ pc' = "exec"
    /\ UNCHANGED <<environmentVars, clients, messages, tool_results, now, last, tool_runs, gate,
                   response, turns_done>>

\* a final round that returns without the runs of the earlier rounds
LLMRoundFinalWithoutRuns(reply) ==
    /\ pc = "llm"
    /\ LoopContinues
    /\ _extract_actions(_coerce_json_payload(reply)) = <<>>
    /\ turn' = turn + 1
    /\ llm_calls' = llm_calls + 1
    /\ _finalize_response(messages,
            _normalize_output(_coerce_json_payload(reply).output), <<>>, <<>>)
    /\ UNCHANGED <<environmentVars, clients, tool_results, now, last, tool_runs, gate, turns_done>>

\* one round of the loop: the reply has no action and ends the turn
LLMRoundFinal(reply) ==
    /\ pc = "llm"
    /\ LoopContinues
    /\ _extract_actions(_coerce_json_payload(reply)) = <<>>
    /\ turn' = turn + 1
    /\ llm_calls' = llm_calls + 1
    /\ _finalize_response(messages,
            _normalize_output(_coerce_json_payload(reply).output), <<>>,
            tool_runs)
    /\ UNCHANGED <<environmentVars, clients, tool_results, now, last, tool_runs, gate, turns_done>>

\* one round of the loop: the call of the LLM raises, nothing catches it
\* and handle_message raises
LLMCallRaises ==
    /\ pc = "llm"
    /\ LoopContinues
    /\ turn' = turn + 1
    /\ llm_calls' = llm_calls + 1
    /\ pc' = "raised"
    /\ UNCHANGED <<environmentVars, clients, messages, tool_results, now, last, actions,
                   tool_runs, gate, response, turns_done>>

\* the loop ends at max_rounds
RoundLimit ==
    /\ pc = "llm"
    /\ ~LoopContinues
    /\ _finalize_response(messages, MaxRoundsReply, <<>>, tool_runs)
    /\ UNCHANGED <<environmentVars, clients, tool_results, now, last, turn, tool_runs, llm_calls,
                   gate, turns_done>>

\* the position after an executed or skipped action
AfterAction ==
    /\ actions' = Tail(actions)
    /\ pc' = IF Tail(actions) = <<>> THEN "llm" ELSE "exec"

\* an action without a tool name is skipped
SkipNamelessAction ==
    /\ pc = "exec"
    /\ ~Truthy(Head(actions).tool)
    /\ AfterAction
    /\ UNCHANGED <<environmentVars, clients, messages, tool_results, now, last, turn, tool_runs,
                   llm_calls, gate, response, turns_done>>

\* an unregistered tool name passed over like a missing one
UnknownToolSkipped ==
    /\ pc = "exec"
    /\ Truthy(Head(actions).tool)
    /\ Head(actions).tool \notin _tool_map
    /\ AfterAction
    /\ UNCHANGED <<environmentVars, clients, messages, tool_results, now, last, turn, tool_runs,
                   llm_calls, gate, response, turns_done>>

\* an action naming an unregistered tool ends the turn
UnknownToolAction ==
    /\ pc = "exec"
    /\ Truthy(Head(actions).tool)
    /\ Head(actions).tool \notin _tool_map
    /\ _finalize_response(messages, UnknownToolReply, <<>>, tool_runs)
    /\ UNCHANGED <<environmentVars, clients, tool_results, now, last, turn, tool_runs, llm_calls,
                   gate, turns_done>>

\* the guard lets the checkout pass only on a ready profile
PaymentGuardBlocksUnlessMissing(readiness) ==
    readiness.status \in {"missing_clients", "missing_fields"}

PaymentGuardBlocks(readiness) == readiness.status # "ready"

\* a run recorded in front of the earlier ones
RunToolWithPrepended(tool_name, tool_input, tool_result) ==
    /\ tool_results' =
            DictUpdate(tool_results, [k \in {tool_name} |-> tool_result])
    /\ tool_runs' =
            <<[name |-> tool_name, input |-> tool_input,
               result |-> tool_result]>> \o tool_runs
    /\ AfterAction

\* the tool messages appended to the prompt of the next LLM call: each is
\* appended together with its entry of tool_runs
ToolMessages(runs) ==
    [i \in 1..Len(runs) |->
        [role |-> "tool", name |-> runs[i].name, content |-> runs[i].result]]

\* the tool runs, its result is cached and recorded
RunToolWith(tool_name, tool_input, tool_result) ==
    /\ tool_results' =
            DictUpdate(tool_results, [k \in {tool_name} |-> tool_result])
    /\ tool_runs' = Append(tool_runs,
            [name |-> tool_name, input |-> tool_input, result |-> tool_result])
    /\ AfterAction

\* a registered tool other than payment_checkout
RunTool ==
    /\ pc = "exec"
    /\ Head(actions).tool \in _tool_map \ {"payment_checkout"}
    /\ Head(actions).input.is_dict
    /\ \E tool_result \in ToolResultsOf(Head(actions).tool) :
            RunToolWith(Head(actions).tool, Head(actions).input, tool_result)
    /\ UNCHANGED <<environmentVars, clients, messages, now, last, turn, llm_calls, gate,
                   response, turns_done>>

\* payment_checkout on a profile the gate finds ready
RunPaymentCheckout ==
    /\ pc = "exec"
    /\ Head(actions).tool = "payment_checkout"
    /\ Head(actions).input.is_dict
    /\ \E enriched \in {apply_payment_context(clients, Head(actions).input)} :
       \E readiness \in {evaluate_payment_readiness(enriched)} :
           /\ ~PaymentGuardBlocks(readiness)
           /\ clients' = enriched
           /\ gate' = readiness.status
    /\ \E tool_result \in ToolResultsOf("payment_checkout") :
            RunToolWith("payment_checkout", Head(actions).input, tool_result)
    /\ UNCHANGED <<environmentVars, messages, now, last, turn, llm_calls, response, turns_done>>

\* a registered tool is called with an input that is no mapping:
\* arun(**tool_input) raises TypeError and handle_message raises (for
\* payment_checkout after the gate has let the call pass)
ToolCallRaises ==
    /\ pc = "exec"
    /\ Head(actions).tool \in _tool_map
    /\ ~Head(actions).input.is_dict
    /\ Head(actions).tool = "payment_checkout" =>
            ~PaymentGuardBlocks(evaluate_payment_readiness(
                apply_payment_context(clients, Head(actions).input)))
    /\ pc' = "raised"
    /\ actions' = <<>>
    /\ UNCHANGED <<environmentVars, clients, messages, tool_results, now, last, turn, tool_runs,
                   llm_calls, gate, response, turns_done>>

\* payment_checkout blocked by the gate: the guard reply is stored, an
\* unverified client is asked to confirm, and the turn ends
PaymentGuardBlock ==
    /\ pc = "exec"
    /\ Head(actions).tool = "payment_checkout"
    /\ \E enriched \in {apply_payment_context(clients, Head(actions).input)} :
       \E readiness \in {evaluate_payment_readiness(enriched)} :
       \E guard_reply \in {_compose_payment_guard_reply(readiness)} :
           /\ PaymentGuardBlocks(readiness)
           /\ gate' = readiness.status
           /\ clients' =
                IF readiness.status = "unverified"
                THEN request_verification(enriched, readiness.client_id,
                                          readiness.fields, now)
                ELSE enriched
           /\ now' = IF readiness.status = "unverified" THEN Tick(now) ELSE now
           /\ _finalize_response(
                Append(messages, [role |-> "assistant", content |-> guard_reply]),
                guard_reply, <<>>, tool_runs)
    /\ UNCHANGED <<environmentVars, tool_results, last, turn, tool_runs, llm_calls, turns_done>>

\* ConversationSessionStore.clear, or the expiry of the session key
ClearSession ==
    /\ SessionOpen
    /\ clients # <<>> \/ messages # <<>> \/ tool_results # <<>>
    /\ clients' = <<>>
    /\ messages' = <<>>
    /\ tool_results' = <<>>
    /\ UNCHANGED <<environmentVars, now, last, turnVars>>

Next ==
    \/ \E c \in SessionCandidates, source \in {"web"} : MergeClients(c, source)
    \/ \E m \in UserMessages : StartTurn(m)
    \/ \E reply \in LLMReplies : LLMRoundWithActions(reply)
    \/ \E reply \in LLMReplies : LLMRoundFinal(reply)
    \/ LLMCallRaises
    \/ RoundLimit
    \/ SkipNamelessAction
    \/ UnknownToolAction
    \/ RunTool
    \/ RunPaymentCheckout
    \/ ToolCallRaises
    \/ PaymentGuardBlock
    \/ ClearSession

Spec == Init /\ [][Next]_vars

-----------------------------------------------------------------------------
(* Checkout after confirmation: turns on a roster of complete clients in   *)
(* which the LLM asks for payment_checkout and the user confirms after     *)
(* every guard block                                                       *)

MaxCheckoutTurns == 4   \* turns of the session

\* Cy with the fields of the checkout input
CompleteCy == _enrich_client_from_payment_payload(Partial, CheckoutInput).client

CheckoutClients ==
    {Ann, Bob, CompleteCy,
     [Ann EXCEPT !.verification = VerificationOf("confirmed", 1, 1, <<>>)],
     [Bob EXCEPT !.verification =
                    VerificationOf("pending", 1, 0, [name |-> "Bob"])]}

\* the rosters of complete clients the store can hold after merge_clients
CheckoutRosters ==
    {r \in {merge_client_records(<<>>, batch, 1) :
                batch \in SeqsUpTo(CheckoutClients, MaxClients)} :
        /\ r # <<>>
        /\ \A i \in 1..Len(r) : required_missing_fields(r[i]) = <<>>}

CheckoutReply ==
    ReplyOf("object", "", <<ActionOf("payment_checkout", CheckoutInput)>>)

InitCheckout ==
    /\ clients \in CheckoutRosters
    /\ messages = <<>>
    /\ tool_results = <<>>
    /\ now = 1
    /\ last = NoOperation
    /\ pc = "idle"
    /\ turn = 0
    /\ actions = <<>>
    /\ tool_runs = <<>>
    /\ llm_calls = 0
    /\ gate = None
    /\ response = IdleResponse
    /\ turns_done = 0
    /\ EnvironmentIdle

\* the payment_checkout tool has been invoked in the running turn
CheckoutInvoked ==
    \E i \in 1..Len(tool_runs) : tool_runs[i].name = "payment_checkout"

\* handle_message up to the loop, as in StartTurn: the first turn has any
\* user message, a turn after a guard block has a confirmation
CheckoutTurn(user_message) ==
    /\ pc = "idle"
    /\ turns_done < MaxCheckoutTurns
    /\ turns_done > 0 => (gate = "unverified" /\ is_confirmation(user_message))
    /\ messages' = Append(messages, [role |-> "user", content |-> user_message])
    /\ clients' = try_mark_verification(clients, user_message, now)
    /\ now' = IF clients' # clients THEN Tick(now) ELSE now
    /\ pc' = "llm"
    /\ turn' = 0
    /\ actions' = <<>>
    /\ tool_runs' = <<>>
    /\ llm_calls' = 0
    /\ gate' = None
    /\ response' = IdleResponse
    /\ turns_done' = turns_done + 1
    /\ UNCHANGED <<environmentVars, tool_results, last>>

\* the first round of a turn: the LLM asks for payment_checkout
CheckoutRequested ==
    /\ turn = 0
    /\ LLMRoundWithActions(CheckoutReply)

\* the round after the tool has run: the LLM ends the turn
CheckoutReported ==
    /\ CheckoutInvoked
    /\ LLMRoundFinal(ReplyOf("object", "done", <<>>))

NextCheckout ==
    \/ \E m \in UserMessages : CheckoutTurn(m)
    \/ CheckoutRequested
    \/ PaymentGuardBlock
    \/ RunPaymentCheckout
    \/ CheckoutReported

\* the turns of the scenario take place
SpecCheckout ==
    InitCheckout /\ [][NextCheckout]_vars /\ WF_vars(NextCheckout)

-----------------------------------------------------------------------------
(* The session store used by two worker processes (state/session_store.py) *)
(* Every operation reads the session with GET, changes the dict it got and  *)
(* writes it back with SET; the two Redis commands are separate steps.      *)

MaxWorkers == 2      \* worker processes sharing the Redis server
MaxOperations == 1   \* store operations followed per worker

SessionIds == {"s1", "s2"}
Workers == 1..MaxWorkers

\* get() of a missing key
EmptySession == [messages |-> <<>>, clients |-> <<>>, tool_results |-> <<>>]

\* sessions a key holds when the workers start
StoredSessions ==
    {EmptySession,
     [messages |-> <<[role |-> "user", content |-> "hello"]>>,
      clients |-> <<Bob>>, tool_results |-> <<>>],
     [messages |-> <<>>,
      clients |-> <<[Partial EXCEPT !.verification.status = "pending"]>>,
      tool_results |-> [policy_research |-> "products"]]}

\* the session an operation builds from the one it read, and whether it
\* reaches self._write
StoreApply(session, op, t) ==
    CASE op.name = "append_message" ->
            [session |-> [session EXCEPT !.messages =
                            Append(@, [role |-> op.role, content |-> op.content])],
             write |-> TRUE]
      [] op.name = "set_tool_result" ->
            [session |-> [session EXCEPT !.tool_results =
                            DictUpdate(@, [k \in {op.tool_name} |-> op.result])],
             write |-> TRUE]
      [] op.name = "merge_clients" ->
            [session |-> [session EXCEPT !.clients =
                            merge_clients_roster(@, op.clients, op.source, t)],
             write |-> TRUE]
      [] op.name = "request_verification" ->
            [session |-> [session EXCEPT !.clients =
                            request_verification(@, op.client_id, op.fields, t)],
             write |-> \E i \in 1..Len(session.clients) :
                            _matches_client(session.clients[i], op.client_id)]
      [] op.name = "try_mark_verification" ->
            [session |-> [session EXCEPT !.clients =
                            try_mark_verification(@, op.user_message, t)],
             write |-> /\ is_confirmation(op.user_message)
                       /\ \E i \in 1..Len(session.clients) :
                            session.clients[i].verification.status = "pending"]
      [] OTHER ->
            [session |-> [session EXCEPT !.clients =
                            apply_payment_context(@, op.payload)],
             write |-> /\ ~IsEmptyPayload(op.payload)
                       /\ \E i \in 1..Len(session.clients) :
                            /\ required_missing_fields(session.clients[i]) # <<>>
                            /\ _enrich_client_from_payment_payload(
                                    session.clients[i], op.payload).updated]

IdleWorker == [pc |-> "idle", operations |-> 0]

InitStore ==
    /\ clients = <<>>
    /\ messages = <<>>
    /\ tool_results = <<>>
    /\ now = 1
    /\ pc = "idle"
    /\ turn = 0
    /\ actions = <<>>
    /\ tool_runs = <<>>
    /\ llm_calls = 0
    /\ gate = None
    /\ response = IdleResponse
    /\ turns_done = 0
    /\ taxonomy_file = <<>>
    /\ agent = <<>>
    /\ redis \in [SessionIds -> StoredSessions]
    /\ procs = [p \in Workers |-> IdleWorker]
    /\ last = [op |-> "session_store", redis |-> redis]

sessionVars ==
    <<clients, messages, tool_results, now, pc, turn, actions, tool_runs,
      llm_calls, gate, response, turns_done>>

\* the worker may start an operation
CanBegin(p) == procs[p].pc = "idle" /\ procs[p].operations < MaxOperations

\* session = self.get(session_id), the first step of every operation: the
\* workers after worker p has read the session of `op`
Loaded(p, op) ==
    [procs EXCEPT ![p] =
        [pc |-> "loaded", op |-> op, session |-> redis[op.session_id],
         operations |-> procs[p].operations + 1]]

AppendMessage(p, session_id, role, content) ==
    /\ CanBegin(p)
    /\ procs' = Loaded(p, [name |-> "append_message",
                           session_id |-> session_id,
                           role |-> role, content |-> content])
    /\ UNCHANGED <<redis, last, sessionVars, taxonomy_file, agent>>

SetToolResult(p, session_id, tool_name, result) ==
    /\ CanBegin(p)
    /\ procs' = Loaded(p, [name |-> "set_tool_result",
                           session_id |-> session_id,
                           tool_name |-> tool_name, result |-> result])
    /\ UNCHANGED <<redis, last, sessionVars, taxonomy_file, agent>>

StoreMergeClients(p, session_id, incoming, source) ==
    /\ CanBegin(p)
    /\ incoming # <<>>
    /\ procs' = Loaded(p, [name |-> "merge_clients",
                           session_id |-> session_id,
                           clients |-> incoming, source |-> source])
    /\ UNCHANGED <<redis, last, sessionVars, taxonomy_file, agent>>

RequestVerification(p, session_id, client_id, fields) ==
    /\ CanBegin(p)
    /\ procs' = Loaded(p, [name |-> "request_verification",
                           session_id |-> session_id,
                           client_id |-> client_id, fields |-> fields])
    /\ UNCHANGED <<redis, last, sessionVars, taxonomy_file, agent>>

\* the message is a confirmation: the others return before the read
TryMarkVerification(p, session_id, user_message) ==
    /\ CanBegin(p)
    /\ is_confirmation(user_message)
    /\ procs' = Loaded(p, [name |-> "try_mark_verification",
                           session_id |-> session_id,
                           user_message |-> user_message])
    /\ UNCHANGED <<redis, last, sessionVars, taxonomy_file, agent>>

\* the payload is a non-empty dict: the others return before the read
StoreApplyPaymentContext(p, session_id, payload) ==
    /\ CanBegin(p)
    /\ ~IsEmptyPayload(payload)
    /\ procs' = Loaded(p, [name |-> "apply_payment_context",
                           session_id |-> session_id, payload |-> payload])
    /\ UNCHANGED <<redis, last, sessionVars, taxonomy_file, agent>>

\* self._write(session_id, session): SET of the dict built from the read one
WriteSession(p) ==
    /\ procs[p].pc = "loaded"
    /\ LET built == StoreApply(procs[p].session, procs[p].op, now)
       IN  /\ built.write
           /\ redis' = [redis EXCEPT ![procs[p].op.session_id] = built.session]
    /\ procs' = [procs EXCEPT ![p].pc = "idle"]
    /\ UNCHANGED <<last, sessionVars, taxonomy_file, agent>>

\* the operation found nothing to update and returns without writing
ReturnWithoutWrite(p) ==
    /\ procs[p].pc = "loaded"
    /\ ~StoreApply(procs[p].session, procs[p].op, now).write
    /\ procs' = [procs EXCEPT ![p].pc = "idle"]
    /\ UNCHANGED <<redis, last, sessionVars, taxonomy_file, agent>>

NextStore ==
    \/ \E p \in Workers, sid \in SessionIds :
        \E m \in {<<"user", "hello">>, <<"assistant", "done">>} :
            AppendMessage(p, sid, m[1], m[2])
    \/ \E p \in Workers, sid \in SessionIds :
        \E r \in {<<"policy_research", "products">>, <<"payment_status", "ok">>} :
            SetToolResult(p, sid, r[1], r[2])
    \/ \E p \in Workers, sid \in SessionIds, c \in {Bob, Partial} :
            StoreMergeClients(p, sid, <<c>>, "web")
    \/ \E p \in Workers, sid \in SessionIds, id \in {None, "c2"} :
            RequestVerification(p, sid, id, [name |-> "Cy"])
    \/ \E p \in Workers, sid \in SessionIds :
            TryMarkVerification(p, sid, "Confirmed")
    \/ \E p \in Workers, sid \in SessionIds :
            StoreApplyPaymentContext(p, sid, CheckoutInput)
    \/ \E p \in Workers : WriteSession(p)
    \/ \E p \in Workers : ReturnWithoutWrite(p)

SpecStore == InitStore /\ [][NextStore]_vars

-----------------------------------------------------------------------------
(* The taxonomy cache of a PolicyResearchAgent (agents/policy_researcher.py) *)
(* while the taxonomy file is edited                                         *)

MaxEdits == 3   \* edits of the taxonomy file
MaxRuns == 2    \* runs of the agent

\* contents of the taxonomy file
TaxonomyContents == {"taxonomy 1", "taxonomy 2", "taxonomy 3"}

\* the agent after __init__ has loaded the file at modification time 1
InitTaxonomy ==
    /\ clients = <<>>
    /\ messages = <<>>
    /\ tool_results = <<>>
    /\ now = 1
    /\ pc = "idle"
    /\ turn = 0
    /\ actions = <<>>
    /\ tool_runs = <<>>
    /\ llm_calls = 0
    /\ gate = None
    /\ response = IdleResponse
    /\ turns_done = 0
    /\ redis = <<>>
    /\ procs = <<>>
    /\ last = [op |-> "taxonomy", contents_since_start |-> {}]
    /\ taxonomy_file = [content |-> "taxonomy 1", mtime |-> 1, edits |-> 0]
    /\ agent = [pc |-> "idle",
                _taxonomy_payload |-> "taxonomy 1", _taxonomy_mtime |-> 1,
                context |-> None, runs |-> 0, reloaded |-> FALSE,
                mtime_at_start |-> 0, recorded_at_start |-> 0]

\* another process rewrites the file; its modification time advances
\* (`last` keeps the contents the file has held since the run began)
EditTaxonomyFile(content) ==
    /\ taxonomy_file.edits < MaxEdits
    /\ content # taxonomy_file.content
    /\ taxonomy_file' = [content |-> content,
                         mtime |-> taxonomy_file.mtime + 1,
                         edits |-> taxonomy_file.edits + 1]
    /\ last' = [last EXCEPT !.contents_since_start = @ \cup {content}]
    /\ UNCHANGED <<agent, redis, procs, sessionVars>>

\* run -> _ensure_taxonomy_fresh: stat() and the comparison with the
\* recorded modification time
EnsureTaxonomyFresh ==
    /\ agent.pc = "idle"
    /\ agent.runs < MaxRuns
    /\ agent' = [agent EXCEPT
            !.pc = IF taxonomy_file.mtime > agent._taxonomy_mtime
                   THEN "load" ELSE "fresh",
            !.reloaded = FALSE,
            !.mtime_at_start = taxonomy_file.mtime,
            !.recorded_at_start = agent._taxonomy_mtime]
    /\ last' = [last EXCEPT !.contents_since_start = {taxonomy_file.content}]
    /\ UNCHANGED <<taxonomy_file, redis, procs, sessionVars>>

\* _load_taxonomy_payload: the file is read and parsed
LoadTaxonomy ==
    /\ agent.pc = "load"
    /\ agent' = [agent EXCEPT !.pc = "stat",
                              !._taxonomy_payload = taxonomy_file.content,
                              !.reloaded = TRUE]
    /\ UNCHANGED <<taxonomy_file, redis, procs, last, sessionVars>>

\* _load_taxonomy_payload: stat() after the read gives the recorded time
RecordTaxonomyMtime ==
    /\ agent.pc = "stat"
    /\ agent' = [agent EXCEPT !.pc = "fresh",
                              !._taxonomy_mtime = taxonomy_file.mtime]
    /\ UNCHANGED <<taxonomy_file, redis, procs, last, sessionVars>>

\* the graph runs: _prepare_context renders the cached payload
BuildTaxonomyContext ==
    /\ agent.pc = "fresh"
    /\ agent' = [agent EXCEPT !.pc = "idle",
                              !.context = agent._taxonomy_payload,
                              !.runs = agent.runs + 1]
    /\ UNCHANGED <<taxonomy_file, redis, procs, last, sessionVars>>

NextTaxonomy ==
    \/ \E content \in TaxonomyContents : EditTaxonomyFile(content)
    \/ EnsureTaxonomyFresh
    \/ LoadTaxonomy
    \/ RecordTaxonomyMtime
    \/ BuildTaxonomyContext

SpecTaxonomy == InitTaxonomy /\ [][NextTaxonomy]_vars

-----------------------------------------------------------------------------
(* Claims on the readiness gate                                            *)

IsComplete(client) == required_missing_fields(client) = <<>>
IsConfirmed(client) == client.verification.status = "confirmed"

\* the clients of the roster that block the payment
Blockers(roster) ==
    {i \in 1..Len(roster) : ~IsComplete(roster[i]) \/ ~IsConfirmed(roster[i])}

FirstOf(set) == CHOOSE i \in set : \A j \in set : i <= j

GateEvaluated ==
    last.op = "evaluate_payment_readiness" /\ last.done

\* C2: the gate answers missing_clients exactly for the empty roster,
\* missing_fields with exactly the required_missing_fields() of an incomplete
\* client, unverified with a non-empty fields map for a complete unconfirmed
\* client, ready with the client_id of the first complete and confirmed
\* client; and the evaluation leaves the stored session as it was.
C2_GateResult ==
    GateEvaluated =>
        LET r == last.result
            roster == last.roster
            n == Len(roster)
        IN  /\ r.status \in {"missing_clients", "missing_fields", "unverified",
                             "ready"}
            /\ (r.status = "missing_clients") <=> (roster = <<>>)
            /\ r.status = "missing_fields" =>
                 /\ r.missing # <<>>
                 /\ \E i \in 1..n :
                      /\ ~IsComplete(roster[i])
                      /\ r.missing = required_missing_fields(roster[i])
                      /\ r.client_id = roster[i].client_id
            /\ r.status = "unverified" =>
                 /\ ~IsEmptyDict(r.fields)
                 /\ \E i \in 1..n :
                      /\ IsComplete(roster[i]) /\ ~IsConfirmed(roster[i])
                      /\ r.client_id = roster[i].client_id
            /\ r.status = "ready" =>
                 LET good == {i \in 1..n :
                                IsComplete(roster[i]) /\ IsConfirmed(roster[i])}
                 IN  good # {} /\ r.client_id = roster[FirstOf(good)].client_id
            /\ clients = roster
            /\ messages = <<>> /\ tool_results = <<>>

\* C2 witness: the gate answered unverified for a complete client whose
\* verification record held no fields
C2_Witness ==
    /\ GateEvaluated
    /\ last.result.status = "unverified"
    /\ \E i \in 1..Len(last.roster) :
         /\ IsComplete(last.roster[i])
         /\ IsEmptyDict(last.roster[i].verification.fields)
         /\ Blockers(last.roster) # {} /\ FirstOf(Blockers(last.roster)) = i

\* C3: the result is that of the first blocking client in roster order,
\* clients after it do not matter, and ready is returned only when every
\* client is complete and confirmed.
C3_FirstBlockerWins ==
    GateEvaluated /\ last.roster # <<>> =>
        LET r == last.result
            roster == last.roster
            blockers == Blockers(roster)
        IN  /\ (r.status = "ready") <=> (blockers = {})
            /\ blockers # {} =>
                 LET b == FirstOf(blockers)
                 IN  /\ r.status = IF ~IsComplete(roster[b])
                                   THEN "missing_fields" ELSE "unverified"
                     /\ r.client_id = roster[b].client_id
                     /\ r = evaluate_payment_readiness(SubSeq(roster, 1, b))

\* C3 witness: a blocking client is followed by a complete and confirmed one
C3_Witness ==
    /\ GateEvaluated
    /\ Len(last.roster) = 2
    /\ Blockers(last.roster) = {1}
    /\ last.result.status = "missing_fields"

-----------------------------------------------------------------------------
(* Claims on the profile merge                                             *)

MaxOf(a, b) == IF a >= b THEN a ELSE b

MergedOnce == last.op = "merge_client_records" /\ last.count >= 1

\* C5: the status returned by _merge_verification is the higher-priority of
\* the two statuses, so never below the current one; and merge_client_records
\* never lowers the status of a client that was in the roster.
C5_VerificationNeverRegresses ==
    /\ last.op = "_merge_verification" /\ last.done =>
         /\ priority(last.result.status) =
                MaxOf(priority(last.current.status),
                      priority(last.incoming.status))
         /\ priority(last.result.status) >= priority(last.current.status)
    /\ MergedOnce =>
         /\ Len(clients) >= Len(last.before)
         /\ \A i \in 1..Len(last.before) :
              priority(clients[i].verification.status)
                  >= priority(last.before[i].verification.status)

\* C5 witness: a confirmed record was merged with an unconfirmed incoming one
C5_Witness ==
    /\ last.op = "_merge_verification" /\ last.done
    /\ last.current.status = "confirmed"
    /\ last.incoming.status = "pending"
    /\ last.result.status = "confirmed"

\* the roster without its timestamps
EraseStamps(roster) ==
    [i \in 1..Len(roster) |->
        [roster[i] EXCEPT !.verification.requested_at = 0,
                          !.verification.confirmed_at = 0]]

\* C6: merging a candidate into the result of merging it gives the same
\* roster up to timestamps, for every roster and candidate.
C6_MergeIdempotent ==
    last.op = "merge_client_records" /\ last.count = 2 =>
        EraseStamps(clients) = EraseStamps(last.before)

NormDestination(trip) ==
    IF _is_blank(trip.destination) THEN "" ELSE Lower(Strip(trip.destination))

OneTripMerged ==
    /\ last.op = "_merge_trips" /\ last.done
    /\ Len(last.incoming_trips) = 1

ScalarRule(old, incoming, new, confirmed) ==
    /\ _is_blank(incoming) => new = old
    /\ ~_is_blank(incoming) /\ confirmed => new = incoming
    /\ ~_is_blank(incoming) /\ ~confirmed /\ ~_is_blank(old) => new = old

\* C8: when a candidate is merged into a matched roster client, every scalar
\* personal-info field and every scalar field of a matched trip follows
\* ScalarRule.
C8_OverwriteRule ==
    MergedOnce =>
        LET c == last.candidate
            m == _find_matching_client(last.before, c)
            confirmed == c.verification.status = "confirmed"
        IN  m # 0 =>
              /\ \A f \in PersonalFieldSet :
                   ScalarRule(last.before[m].personal_info[f],
                              c.personal_info[f],
                              clients[m].personal_info[f], confirmed)
              /\ Len(c.trips) = 1 =>
                   LET k == _locate_trip_index(last.before[m].trips, c.trips[1])
                   IN  k # 0 =>
                         \A f \in TripScalarSet :
                            ScalarRule(last.before[m].trips[k][f],
                                       c.trips[1][f],
                                       clients[m].trips[k][f], confirmed)

\* C8 witness: a confirmed candidate replaced a non-blank name and the
\* non-blank cost of the matched trip
C8_Witness ==
    /\ MergedOnce
    /\ last.candidate.verification.status = "confirmed"
    /\ LET m == _find_matching_client(last.before, last.candidate)
       IN  /\ m # 0
           /\ last.before[m].personal_info.name = "Ann"
           /\ clients[m].personal_info.name = "Bob"
           /\ Len(last.before[m].trips) >= 1
           /\ last.before[m].trips[1].trip_cost = "100"
           /\ clients[m].trips[1].trip_cost = "0"

\* C9: required_missing_fields() is empty exactly when the six personal-info
\* fields are non-blank and some trip has its five required fields non-blank;
\* interests, extra and verification do not matter.
C9_RequiredMissingFields ==
    last.op = "required_missing_fields" /\ last.done =>
        LET c == last.client
            personal_ok ==
                \A f \in PersonalFieldSet : ~_is_blank(c.personal_info[f])
            trip_ok ==
                \E i \in 1..Len(c.trips) :
                    \A f \in {"destination", "start_date", "end_date",
                              "trip_type", "trip_cost"} :
                        ~_is_blank(c.trips[i][f])
        IN  /\ (last.result = <<>>) <=> (personal_ok /\ trip_ok)
            /\ last.result =
                 required_missing_fields(
                    [c EXCEPT !.interests = <<>>, !.extra = <<>>,
                              !.verification = EmptyVerification])

\* C9 witness: a client whose first trip is incomplete and second trip is
\* complete has nothing missing
C9_Witness ==
    /\ last.op = "required_missing_fields" /\ last.done
    /\ Len(last.client.trips) = 2
    /\ missing_fields(last.client.trips[1]) # <<>>
    /\ missing_fields(last.client.trips[2]) = <<>>
    /\ last.client.interests # <<>>
    /\ last.result = <<>>

-----------------------------------------------------------------------------
(* Claims on the orchestrator loop, checked under Spec                     *)

\* the orchestrator took a step of the turn
TurnStep == turnVars' # turnVars

\* the step handles a payment_checkout action
PaymentActionHandled ==
    /\ pc = "exec"
    /\ Head(actions).tool = "payment_checkout"
    /\ TurnStep

\* the step appends a run of payment_checkout
PaymentToolInvoked ==
    /\ Len(tool_runs') > Len(tool_runs)
    /\ tool_runs'[Len(tool_runs')].name = "payment_checkout"

\* the gate on the roster as enriched by the action's input
GateNow ==
    evaluate_payment_readiness(apply_payment_context(clients, Head(actions).input))

\* C1: the payment_checkout tool is invoked only in a step that handles a
\* payment_checkout action and in which the gate, evaluated on the roster of
\* that moment after the payment context was applied, is "ready"; on any
\* other status no tool runs, nothing is cached, and the turn ends with the
\* guard message of that status.
C1_PaymentOnlyWhenReady ==
    [][/\ PaymentToolInvoked =>
            /\ PaymentActionHandled
            /\ GateNow.status = "ready"
            /\ evaluate_payment_readiness(clients').status = "ready"
       /\ (PaymentActionHandled /\ GateNow.status # "ready") =>
            /\ tool_runs' = tool_runs
            /\ tool_results' = tool_results
            /\ pc' = "idle"
            /\ response'.output = _compose_payment_guard_reply(GateNow)
            /\ response'.tool_runs = tool_runs
            /\ gate' = GateNow.status]_vars

\* C1 witness: a turn in which payment_checkout ran in one round and was
\* blocked by the guard in a later round, the roster having changed between
C1_Witness ==
    /\ pc = "idle"
    /\ response.output \in GuardReplies
    /\ \E i \in 1..Len(response.tool_runs) :
            response.tool_runs[i].name = "payment_checkout"

\* C4 as stated: outside a clear of the session, no step lowers the
\* verification priority of a client of the roster.
C4_PriorityNeverDecreases ==
    [][\A i \in 1..Len(clients) :
            i <= Len(clients') =>
                priority(clients'[i].verification.status)
                    >= priority(clients[i].verification.status)]_vars

\* the step handles an action naming an unregistered tool
UnknownToolHandled ==
    /\ pc = "exec"
    /\ Truthy(Head(actions).tool)
    /\ Head(actions).tool \notin _tool_map
    /\ TurnStep

\* C10: the step that handles an action naming an unregistered tool ends the
\* turn: the response is the fixed apology with no actions, no tool runs in
\* the step, the rest of the batch is dropped, and no LLM call follows (the
\* count of calls moves only while the turn is open); when the first reply
\* of the turn is a single unknown-tool action the turn ends in round 1 with
\* one LLM call and no tool run.
C10_UnknownToolEndsTurn ==
    [][/\ UnknownToolHandled =>
            /\ pc' = "idle"
            /\ actions' = <<>>
            /\ response'.output = UnknownToolReply
            /\ response'.actions = <<>>
            /\ response'.tool_runs = tool_runs
            /\ tool_runs' = tool_runs
            /\ tool_results' = tool_results
            /\ llm_calls' = llm_calls
            /\ turn' = turn
            /\ messages' = Append(messages,
                    [role |-> "assistant",
                     content |-> [output |-> UnknownToolReply, actions |-> <<>>]])
            /\ (llm_calls = 1 /\ tool_runs = <<>>) =>
                    (turn' = 1 /\ llm_calls' = 1 /\ response'.tool_runs = <<>>)
       /\ (pc = "idle" /\ llm_calls' # llm_calls) => llm_calls' = 0]_vars

\* C10 witness: a turn ended by the apology in its first round, after one
\* LLM call and without a tool run
C10_Witness ==
    /\ pc = "idle"
    /\ response.output = UnknownToolReply
    /\ response.actions = <<>>
    /\ llm_calls = 1
    /\ turn = 1
    /\ response.tool_runs = <<>>


\* the step is a round of the loop in which the LLM call returns a reply
RoundStep == pc = "llm" /\ LoopContinues /\ TurnStep /\ pc' # "raised"

\* the replies without actions
FinalReplies ==
    {reply \in LLMReplies : _extract_actions(_coerce_json_payload(reply)) = <<>>}

\* C11 as stated: a round whose reply has no actions ends the turn and
\* returns that round's output with all tool runs of the earlier rounds; a
\* round whose reply has actions does not end the turn at the LLM call.
C11_Original ==
    [][RoundStep =>
        /\ llm_calls' = llm_calls + 1
        /\ turn' = turn + 1
        /\ llm_calls' = turn'
        /\ \/ /\ pc' = "exec"
              /\ actions' # <<>>
              /\ tool_runs' = tool_runs
              /\ messages' = messages
           \/ /\ pc' = "idle"
              /\ response'.tool_runs = tool_runs
              /\ response'.actions = <<>>
              /\ \E reply \in FinalReplies :
                    response'.output =
                        _normalize_output(_coerce_json_payload(reply).output)]_vars

\* C11 amended: as stated, but the returned output is that round's output
\* unless it is blank and the last tool run has a fallback summary, which is
\* then returned in its place; with one tool run in round 1 and "done" in
\* round 2 the turn returns "done" after two LLM calls with that one run.
C11_FirstFinalRoundEndsTurn ==
    [][RoundStep =>
        /\ llm_calls' = llm_calls + 1
        /\ turn' = turn + 1
        /\ llm_calls' = turn'
        /\ \/ /\ pc' = "exec"
              /\ actions' # <<>>
              /\ tool_runs' = tool_runs
              /\ messages' = messages
           \/ /\ pc' = "idle"
              /\ response'.tool_runs = tool_runs
              /\ response'.actions = <<>>
              /\ \E reply \in FinalReplies :
                    LET out == _normalize_output(_coerce_json_payload(reply).output)
                    IN  /\ response'.output =
                            IF Strip(out) = ""
                               /\ _compose_tool_fallback_reply(tool_runs) # ""
                            THEN _compose_tool_fallback_reply(tool_runs)
                            ELSE out
                        /\ messages' = Append(messages,
                              [role |-> "assistant",
                               content |-> [output |-> response'.output,
                                            actions |-> <<>>]])
              /\ (response'.output = "done" /\ llm_calls = 1 /\ Len(tool_runs) = 1)
                    => (llm_calls' = 2 /\ Len(response'.tool_runs) = 1)]_vars

\* C11 witness: a turn that ran one tool in round 1 and returned "done" in
\* round 2
C11_Witness ==
    /\ pc = "idle"
    /\ response.output = "done"
    /\ llm_calls = 2
    /\ turn = 2
    /\ Len(response.tool_runs) = 1
    /\ tool_runs = response.tool_runs

C13_MalformedReplyRecovered ==
    [][(pc = "exec" /\ TurnStep) => pc' # "raised"]_vars

\* C14 as stated: no round of the loop makes handle_message raise; a failure
\* of the LLM call ends the turn with a returned result.
C14_LLMFailureCaught ==
    [][(pc = "llm" /\ TurnStep) => pc' \in {"exec", "idle"}]_vars

\* C15 as stated: a turn in which a tool ran never returns a blank output.
C15_NoBlankOutputAfterTool ==
    (pc = "idle" /\ response.tool_runs # <<>>) => Strip(response.output) # ""


-----------------------------------------------------------------------------
(* Claims on the policy research agent, checked under SpecPure            *)

\* the run asked for product names of which none is in the taxonomy
AbsentProductsAsked ==
    /\ last.op = "policy_research" /\ last.stage = "done"
    /\ _normalize_product_list(last.recommended_products) # <<>>
    /\ \A i \in 1..Len(last.recommended_products) :
            last.recommended_products[i] \notin UNION TaxonomyProducts(last.taxonomy)

\* C16 as stated: a run asked for products that appear in no taxonomy entry
\* builds a context without any benefit or condition, does not call the
\* LLM, and returns no products.
C16_AbsentProductSkipsLLM ==
    AbsentProductsAsked =>
        /\ \A i \in 1..Len(last.state.taxonomy_context) :
                /\ last.state.taxonomy_context[i].general_conditions = <<>>
                /\ last.state.taxonomy_context[i].benefits = <<>>
                /\ last.state.taxonomy_context[i].benefit_conditions = <<>>
        /\ last.result.llm_invocations = 0
        /\ last.result.products = <<>>


-----------------------------------------------------------------------------
(* Claims on the payment-context enrichment, checked under SpecPure       *)

PaymentContextApplied == last.op = "apply_payment_context" /\ last.done

\* the clients of a roster that have missing required fields
Incomplete(roster) ==
    {i \in 1..Len(roster) : required_missing_fields(roster[i]) # <<>>}

\* C17 as stated: apply_payment_context changes at most the first client in
\* roster order that has missing required fields.
C17_OnlyFirstIncompleteEnriched ==
    PaymentContextApplied =>
        /\ Len(clients) = Len(last.before)
        /\ \A i \in 1..Len(clients) :
                (Incomplete(last.before) = {} \/ i # FirstOf(Incomplete(last.before)))
                    => clients[i] = last.before[i]

\* the fields of `before` that hold a value are the same in `after`
NonBlankKept(before, after, fields) ==
    \A f \in fields : ~_is_blank(before[f]) => after[f] = before[f]

\* C18 as stated: applying a payment context never replaces a non-blank
\* personal-info field or a non-blank field of the preferred trip.
C18_EnrichmentFillsOnlyBlanks ==
    PaymentContextApplied =>
        \A i \in 1..Len(last.before) :
            LET before == last.before[i]
                after == clients[i]
                t == select_preferred_trip(before)
            IN  /\ NonBlankKept(before.personal_info, after.personal_info,
                                PersonalFieldSet)
                /\ t # 0 => NonBlankKept(before.trips[t], after.trips[t],
                                         TripScalarSet)


ClientEnriched ==
    last.op = "_enrich_client_from_payment_payload" /\ last.done

\* a personal-info or trip field of the client changed
FieldsChanged(before, after) ==
    before.personal_info # after.personal_info \/ before.trips # after.trips

\* the values the payload gives under the aliases of a field, normalised
SuppliedPersonal(payload, field_name) ==
    LET aggregated == CollectFrom(CollectedItems(payload), 1, <<>>)
    IN  {_normalize_personal_info_value(field_name, aggregated[i][2]) :
            i \in {j \in 1..Len(aggregated) :
                    /\ aggregated[j][1] \in DOMAIN _PERSONAL_INFO_FIELD_MAP
                    /\ _PERSONAL_INFO_FIELD_MAP[aggregated[j][1]] = field_name}}
        \ {None}

SuppliedTrip(payload, field_name) ==
    LET aggregated == CollectFrom(CollectedItems(payload), 1, <<>>)
    IN  {_normalize_trip_value(field_name, aggregated[i][2]) :
            i \in {j \in 1..Len(aggregated) :
                    /\ aggregated[j][1] \in DOMAIN _TRIP_FIELD_MAP
                    /\ _TRIP_FIELD_MAP[aggregated[j][1]] = field_name}}
        \ {None}

\* the payload has no key that is an alias of a field
NoKnownAlias(payload) ==
    LET aggregated == CollectFrom(CollectedItems(payload), 1, <<>>)
    IN  \A i \in 1..Len(aggregated) :
            /\ aggregated[i][1] \notin DOMAIN _PERSONAL_INFO_FIELD_MAP
            /\ aggregated[i][1] \notin DOMAIN _TRIP_FIELD_MAP

\* the payload gives a usable value for every required field the client
\* lacks
SuppliesAllMissing(client, payload) ==
    LET t == select_preferred_trip(client)
        trip == IF t = 0 THEN EmptyTrip ELSE client.trips[t]
    IN  /\ \A f \in PersonalFieldSet :
                _is_blank(client.personal_info[f])
                    => SuppliedPersonal(payload, f) # {}
        /\ \A f \in {"destination", "start_date", "end_date", "trip_type",
                     "trip_cost"} :
                _is_blank(trip[f]) => SuppliedTrip(payload, f) # {}

ClientObjectsMerged ==
    last.op = "merge_client_records_objects" /\ last.stage # "start"

\* the objects passed to the first call
InputObjects == DOMAIN last.before

\* C20 as stated: after merge_client_records, and after a later merge into
\* the roster it returned, every ClientDatum passed in existing_clients or
\* incoming_clients has the field values it had before the call.
C20_InputsNotMutated ==
    ClientObjectsMerged =>
        \A object \in InputObjects : last.heap[object] = last.before[object]


-----------------------------------------------------------------------------
(* Claims on the matching of clients                                       *)

\* the two records hold the same identity key
SharesIdentityKey(a, b) ==
    \/ /\ ~_is_blank(a.client_id) /\ ~_is_blank(b.client_id)
       /\ Lower(a.client_id) = Lower(b.client_id)
    \/ /\ ~_is_blank(a.personal_info.passport_number)
       /\ ~_is_blank(b.personal_info.passport_number)
       /\ Upper(Strip(a.personal_info.passport_number))
            = Upper(Strip(b.personal_info.passport_number))
    \/ /\ ~_is_blank(a.personal_info.email_address)
       /\ ~_is_blank(b.personal_info.email_address)
       /\ Lower(Strip(a.personal_info.email_address))
            = Lower(Strip(b.personal_info.email_address))
    \/ /\ ~_is_blank(a.personal_info.phone_number)
       /\ ~_is_blank(b.personal_info.phone_number)
       /\ Digits(a.personal_info.phone_number)
            = Digits(b.personal_info.phone_number)

HasIdentityKey(client) ==
    \/ ~_is_blank(client.client_id)
    \/ ~_is_blank(client.personal_info.passport_number)
    \/ ~_is_blank(client.personal_info.email_address)
    \/ ~_is_blank(client.personal_info.phone_number)

\* the roster clients with the source of the candidate, which has one
SameSource(roster, candidate) ==
    {i \in 1..Len(roster) :
        Truthy(candidate.source) /\ roster[i].source = candidate.source}

\* the roster clients with the name of the candidate, which has one
SameName(roster, candidate) ==
    {i \in 1..Len(roster) :
        /\ NormName(candidate.personal_info.name) # ""
        /\ NormName(roster[i].personal_info.name)
                = NormName(candidate.personal_info.name)}

\* the roster after the merge of a candidate into client m (0: appended)
MergedInto(roster, candidate, m, t) ==
    IF m = 0 THEN Append(roster, candidate)
    ELSE [roster EXCEPT ![m] = _merge_client(roster[m], candidate, t)]

\* C22: a candidate with an identity key is merged into the first roster
\* client sharing a key with it and appended when there is none; a candidate
\* without identity key is merged into the only roster client, else into the
\* single client with its source, else into the single client with its name
\* (trimmed, case-insensitive), else appended.
C22_ClientMatching ==
    MergedOnce =>
        LET roster == last.before
            c == last.candidate
            sharing == {i \in 1..Len(roster) : SharesIdentityKey(roster[i], c)}
            by_source == SameSource(roster, c)
            by_name == SameName(roster, c)
            m == IF HasIdentityKey(c)
                 THEN IF sharing # {} THEN FirstOf(sharing) ELSE 0
                 ELSE IF Len(roster) = 1 THEN 1
                 ELSE IF Cardinality(by_source) = 1 THEN FirstOf(by_source)
                 ELSE IF Cardinality(by_name) = 1 THEN FirstOf(by_name)
                 ELSE 0
        IN  clients = MergedInto(roster, c, m, now)

\* C22 witness: a candidate without identity key or source was merged into
\* the one client of a roster of two that has its name
C22_Witness ==
    /\ MergedOnce
    /\ ~HasIdentityKey(last.candidate)
    /\ Len(last.before) = 2
    /\ SameSource(last.before, last.candidate) = {}
    /\ Cardinality(SameName(last.before, last.candidate)) = 1
    /\ Len(clients) = 2
    /\ clients # last.before


\* no two clients of the roster hold the same identity key
NoSharedIdentityKey(roster) ==
    \A i \in 1..Len(roster) : \A j \in 1..Len(roster) :
        i # j => ~SharesIdentityKey(roster[i], roster[j])

\* C30 as stated: a roster built from the empty one by merges never holds two
\* clients with a common identity key, and a merge keeps the existing clients
\* at their positions.
C30_IdentityKeysUnique ==
    last.op = "merge_client_records" =>
        /\ NoSharedIdentityKey(clients)
        /\ last.count >= 1 => Len(clients) >= Len(last.before)


-----------------------------------------------------------------------------
(* Claims on the session store under concurrent workers                    *)

\* the stored session after an operation run alone on it
Effect(session, op) ==
    IF StoreApply(session, op, now).write
    THEN StoreApply(session, op, now).session ELSE session

\* both workers have finished their operation
BothFinished ==
    \A p \in Workers : procs[p].pc = "idle" /\ procs[p].operations = 1

\* C21 as stated: after two operations of two workers on one session id the
\* stored session reflects both, being what the two operations give one after
\* the other in some order; operations on two session ids leave in each
\* session what its own operation gives.
C21_NoLostUpdate ==
    (last.op = "session_store" /\ BothFinished) =>
        LET a == procs[1].op
            b == procs[2].op
            before == last.redis
        IN  IF a.session_id = b.session_id
            THEN /\ redis[a.session_id] \in
                        {Effect(Effect(before[a.session_id], a), b),
                         Effect(Effect(before[a.session_id], b), a)}
                 /\ \A sid \in SessionIds \ {a.session_id} :
                        redis[sid] = before[sid]
            ELSE /\ redis[a.session_id] = Effect(before[a.session_id], a)
                 /\ redis[b.session_id] = Effect(before[b.session_id], b)


-----------------------------------------------------------------------------
(* Claims on the taxonomy cache                                            *)

RunFinished == last.op = "taxonomy" /\ agent.pc = "idle" /\ agent.runs >= 1

\* C23 as stated: a run builds its context from the content the file has
\* when the run starts (or a content written during the run), reading the
\* file again exactly when its modification time is later than the recorded
\* one.
C23_ContextFromLatestFile ==
    RunFinished =>
        /\ agent.context \in last.contents_since_start
        /\ agent.reloaded <=> agent.mtime_at_start > agent.recorded_at_start


-----------------------------------------------------------------------------
(* Claims on the order of tool runs and on the stored transcript           *)

\* the step handles the next listed action of the round
ActionStep == pc = "exec" /\ TurnStep

\* C24: the actions of a round are handled one at a time in listed order. An
\* action without a tool name is skipped and the batch goes on; an action
\* with a tool name either invokes its tool, whose run is appended to
\* tool_runs and whose tool message is appended to the prompt, or ends the
\* turn with the remaining actions dropped and no further invocation.
C24_ToolsInListedOrder ==
    [][ActionStep =>
        LET a == Head(actions)
            rest == Tail(actions)
        IN  /\ ~Truthy(a.tool) =>
                /\ tool_runs' = tool_runs
                /\ actions' = rest
                /\ pc' = IF rest = <<>> THEN "llm" ELSE "exec"
            /\ Truthy(a.tool) =>
                \/ /\ Len(tool_runs') = Len(tool_runs) + 1
                   /\ SubSeq(tool_runs', 1, Len(tool_runs)) = tool_runs
                   /\ tool_runs'[Len(tool_runs')].name = a.tool
                   /\ tool_runs'[Len(tool_runs')].input = a.input
                   /\ SubSeq(ToolMessages(tool_runs'), 1, Len(tool_runs))
                        = ToolMessages(tool_runs)
                   /\ ToolMessages(tool_runs')[Len(tool_runs')].name = a.tool
                   /\ actions' = rest
                   /\ pc' = IF rest = <<>> THEN "llm" ELSE "exec"
                \/ /\ pc' \in {"idle", "raised"}
                   /\ tool_runs' = tool_runs
                   /\ actions' = <<>>]_vars

\* C24 witness: a first round listing a nameless action, policy_research,
\* payment_status and an unregistered tool has run the two tools in that
\* order and ended the turn at the unregistered one
C24_Witness ==
    /\ pc = "idle"
    /\ turn = 1
    /\ response.output = UnknownToolReply
    /\ Len(response.tool_runs) = 2
    /\ response.tool_runs[1].name = "policy_research"
    /\ response.tool_runs[2].name = "payment_status"


\* C25 as stated: the user message is stored when the turn starts, and the
\* assistant turn of a round whose reply lists actions is stored before the
\* first of its actions is handled.
C25_TranscriptAsProduced ==
    [][/\ (pc \in {"idle", "raised"} /\ pc' = "llm") =>
            /\ Len(messages') = Len(messages) + 1
            /\ messages'[Len(messages')].role = "user"
       /\ (pc = "llm" /\ pc' = "exec") =>
            /\ Len(messages') = Len(messages) + 1
            /\ messages'[Len(messages')].role = "assistant"]_vars


\* C26 as stated: the start of a turn stores one user message, and the step
\* that ends a turn with a response stores one assistant message, the
\* {output, actions} of that response, on every exit path.
C26_OneUserOneAssistant ==
    [][/\ (pc \in {"idle", "raised"} /\ pc' = "llm") =>
            messages' = Append(messages,
                               [role |-> "user",
                                content |-> messages'[Len(messages')].content])
       /\ (pc \in {"llm", "exec"} /\ pc' = "idle") =>
            messages' = Append(messages,
                               [role |-> "assistant",
                                content |-> [output |-> response'.output,
                                             actions |-> response'.actions]])]_vars


-----------------------------------------------------------------------------
(* Claims on the verification of clients                                   *)

\* the step is a payment guard block with status unverified
UnverifiedBlock ==
    /\ pc = "exec"
    /\ Head(actions).tool = "payment_checkout"
    /\ TurnStep
    /\ gate' = "unverified"

\* C27 as stated: on a guard block with status unverified only the client
\* the gate reported is changed: it becomes pending with the reported fields
\* and a fresh requested_at, every other client keeps its verification.
C27_OnlyReportedClientPending ==
    [][UnverifiedBlock =>
        LET enriched == apply_payment_context(clients, Head(actions).input)
            readiness == evaluate_payment_readiness(enriched)
            reported == FirstOf(Blockers(enriched))
        IN  /\ Len(clients') = Len(enriched)
            /\ clients'[reported].verification =
                    [status |-> "pending", fields |-> readiness.fields,
                     requested_at |-> now, confirmed_at |-> 0]
            /\ \A i \in 1..Len(enriched) :
                    i # reported =>
                        clients'[i].verification = enriched[i].verification]_vars


TriedAsConfirmation == last.op = "try_mark_verification" /\ last.done

\* the clients that are confirmed in `after` and were not in `before`
NewlyConfirmed(before, after) ==
    {i \in 1..Len(before) :
        /\ after[i].verification.status = "confirmed"
        /\ before[i].verification.status # "confirmed"}

\* the first word of the text is one of the accepted starts
StartsWithAcceptance(text) ==
    FirstToken(text) \in {"yes", "yup", "yeah", "sure", "ok", "okay"}

\* C28 as stated: try_mark_verification changes no client that is unknown or
\* confirmed, and changes nothing when the message is empty, contains "?" or
\* contains no confirmation phrase.
C28_Original ==
    TriedAsConfirmation =>
        LET text == MessageText(last.user_message)
        IN  /\ \A i \in 1..Len(last.before) :
                last.before[i].verification.status \in {"unknown", "confirmed"}
                    => clients[i] = last.before[i]
            /\ (text = "" \/ HasQuestionMark(text) \/ ~HasConfirmationPhrase(text))
                    => clients = last.before

\* C28 amended: try_mark_verification changes no client that is unknown or
\* confirmed, and changes nothing when the message is empty, contains "?",
\* or neither contains a confirmation phrase nor starts with an accepted
\* word (yes, yup, yeah, sure, ok, okay); a client becomes confirmed only
\* from pending by a confirmation, or in a merge of a confirmed candidate,
\* and never by a payment context.
C28_ConfirmedOnlyFromPending ==
    /\ TriedAsConfirmation =>
        LET text == MessageText(last.user_message)
        IN  /\ Len(clients) = Len(last.before)
            /\ \A i \in 1..Len(last.before) :
                last.before[i].verification.status \in {"unknown", "confirmed"}
                    => clients[i] = last.before[i]
            /\ (text = "" \/ HasQuestionMark(text)
                \/ (~HasConfirmationPhrase(text) /\ ~StartsWithAcceptance(text)))
                    => clients = last.before
            /\ \A i \in NewlyConfirmed(last.before, clients) :
                /\ last.before[i].verification.status = "pending"
                /\ text # "" /\ ~HasQuestionMark(text)
                /\ HasConfirmationPhrase(text) \/ StartsWithAcceptance(text)
    /\ MergedOnce =>
        (NewlyConfirmed(last.before, clients) # {}
            => last.candidate.verification.status = "confirmed")
    /\ PaymentContextApplied =>
        NewlyConfirmed(last.before, clients) = {}

\* C28 witness: "Yes please" confirmed a pending client and left an unknown
\* client of the same roster unchanged
C28_Witness ==
    /\ TriedAsConfirmation
    /\ last.user_message = "Yes please"
    /\ Len(clients) = 2
    /\ \E i \in 1..2 : \E j \in 1..2 :
        /\ last.before[i].verification.status = "pending"
        /\ clients[i].verification.status = "confirmed"
        /\ last.before[j].verification.status = "unknown"
        /\ clients[j] = last.before[j]


\* C29: in turns that ask for payment_checkout on a roster of complete
\* clients, with a confirmation after every guard block, a block with status
\* unverified is followed by an invocation of the payment_checkout tool.
C29_CheckoutAfterConfirmation ==
    (gate = "unverified") ~> CheckoutInvoked

\* C29 witness: the tool was invoked in the third turn, after two guard
\* blocks each followed by a confirmation
C29_Witness ==
    /\ CheckoutInvoked
    /\ gate = "ready"
    /\ turns_done = 3
    /\ Len(clients) = 2

=============================================================================
